---- MODULE Spec2Model ----
(***************************************************************************)
(* A model of kicad-lib-parse's mapping engine (src/src/models.py): the    *)
(* decoders (from_sexp / from_sexpr) that turn a node tree or a text into  *)
(* typed entities and the encoders (to_sexp / to_sexpr) that turn entities *)
(* back into nodes or text.                                                *)
(*                                                                         *)
(* A node is an atom or a list of nodes, as sexpdata produces it:          *)
(*   [sym |-> s]   a Symbol (a str subclass: str(), float() and == see s)  *)
(*   [str |-> s]   a plain string                                          *)
(*   [int |-> n]   a Python int                                            *)
(*   [num |-> v]   a Python float, v in hundredths (25 is 0.25)            *)
(*   [list |-> q]  a list, q the sequence of its elements                  *)
(* A float field of an entity holds its value in hundredths as well.  An   *)
(* optional field is <<>> (None) or <<v>>.  A text (the argument of the    *)
(* from_sexpr decoders) is a sequence of one-character strings.            *)
(* A call returns [ok |-> TRUE, val |-> v] or raises                       *)
(* [ok |-> FALSE, exc |-> class, msg |-> message].                         *)
(***************************************************************************)
EXTENDS Integers, Sequences, FiniteSets, TLC

VARIABLES trace, stdout, pass

vars == <<trace, stdout, pass>>

\* ------------------------------------------------------------------ results

None == <<>>

Some(v) == <<v>>

Ok(v) == [ok |-> TRUE, val |-> v]

Raise(exc, msg) == [ok |-> FALSE, exc |-> exc, msg |-> msg]

ValueError(msg) == Raise("ValueError", msg)

\* what indexing a list past its end raises
IndexError == Raise("IndexError", "list index out of range")

\* -------------------------------------------------------------------- nodes

Sym(s) == [sym |-> s]

Str(s) == [str |-> s]

IntAtom(n) == [int |-> n]

Num(v) == [num |-> v]

L(q) == [list |-> q]

IsSym(x) == "sym" \in DOMAIN x

IsStr(x) == "str" \in DOMAIN x

IsInt(x) == "int" \in DOMAIN x

IsNum(x) == "num" \in DOMAIN x

IsList(x) == "list" \in DOMAIN x

\* isinstance(x, list) and len(x) == n
IsListOfLen(x, n) == IsList(x) /\ Len(x.list) = n

\* isinstance(x[0], Symbol) and x[0].value() == tag, for a list x that has a
\* first element
HeadIsSymbol(x, tag) == IsSym(x.list[1]) /\ x.list[1].sym = tag

\* data[i:] of a Python list (i is 0-based)
From(q, i) == SubSeq(q, i + 1, Len(q))

\* ----------------------------------------------------------------- numerals

Digits == {"0", "1", "2", "3", "4", "5", "6", "7", "8", "9"}

DigitVal == ("0" :> 0) @@ ("1" :> 1) @@ ("2" :> 2) @@ ("3" :> 3) @@ ("4" :> 4)
            @@ ("5" :> 5) @@ ("6" :> 6) @@ ("7" :> 7) @@ ("8" :> 8) @@ ("9" :> 9)

DigitChar(d) == <<"0", "1", "2", "3", "4", "5", "6", "7", "8", "9">>[d + 1]

\* the least and the greatest element of a non-empty set of integers
Min(S) == CHOOSE i \in S : \A h \in S : i <= h

Max(S) == CHOOSE i \in S : \A h \in S : i >= h

RECURSIVE DigitsVal(_)
DigitsVal(cs) ==
    IF cs = <<>> THEN 0
    ELSE DigitsVal(SubSeq(cs, 1, Len(cs) - 1)) * 10 + DigitVal[cs[Len(cs)]]

RECURSIVE NatChars(_)
NatChars(n) ==
    IF n < 10 THEN <<DigitChar(n)>>
    ELSE NatChars(n \div 10) \o <<DigitChar(n % 10)>>

AllDigits(cs) == \A i \in 1..Len(cs) : cs[i] \in Digits

\* digits [. digits], ip the characters before the first point and fp those
\* after it, in hundredths: the texts of this model carry at most two
\* fractional digits and no exponent, inf, nan or underscore form
Magnitude(ip, fp) ==
    IF AllDigits(ip) /\ AllDigits(fp) /\ Len(ip) + Len(fp) > 0
    THEN Ok(DigitsVal(ip) * 100 + DigitsVal(SubSeq(fp \o <<"0", "0">>, 1, 2)))
    ELSE ValueError("could not convert string to float")

\* an unsigned numeral, dot the index of its first point (or one past its end)
SplitAt(body, dot) ==
    Magnitude(SubSeq(body, 1, dot - 1), SubSeq(body, dot + 1, Len(body)))

Unsigned(body) ==
    SplitAt(body, Min({i \in 1..Len(body) : body[i] = "."} \cup {Len(body) + 1}))

\* the numeral cs without its sign
Unsign(cs) == IF cs # <<>> /\ cs[1] \in {"+", "-"} THEN Tail(cs) ELSE cs

\* the value r of the unsigned part of cs, with the sign of cs
WithSign(cs, r) == IF r.ok /\ cs[1] = "-" THEN Ok(0 - r.val) ELSE r

\* float("nan"): the float every comparison with which is false, kept as a
\* number that no numeral of the model denotes
NaN == -2147483647

\* v <= 0 on a float
LeZero(v) == v # NaN /\ v <= 0

\* float(text) on a text without surrounding blanks: [sign] digits [. digits]
\* or [sign] . digits, or [sign] nan
ParseFloat(cs) ==
    IF Unsign(cs) = <<"n", "a", "n">> THEN Ok(NaN) ELSE WithSign(cs, Unsigned(Unsign(cs)))

Natural(body) ==
    IF body # <<>> /\ AllDigits(body) THEN Ok(DigitsVal(body))
    ELSE ValueError("invalid literal for int() with base 10")

\* int(text): [sign] digits
ParseInt(cs) == WithSign(cs, Natural(Unsign(cs)))

\* str(n) of a Python int
FormatInt(n) == IF n < 0 THEN <<"-">> \o NatChars(0 - n) ELSE NatChars(n)

\* the fractional digits of str(v): at least one, no trailing zero after it
Fraction(f) ==
    IF f % 10 = 0 THEN <<DigitChar(f \div 10)>>
    ELSE <<DigitChar(f \div 10), DigitChar(f % 10)>>

Unsigned2(mag) == NatChars(mag \div 100) \o <<".">> \o Fraction(mag % 100)

\* str(v) of a Python float (repr: the shortest decimal that reads back)
FormatFloat(v) ==
    IF v = NaN THEN <<"n", "a", "n">>
    ELSE IF v < 0 THEN <<"-">> \o Unsigned2(0 - v) ELSE Unsigned2(v)

\* The spelling of the strings of the model that read as numbers.
Spell ==
    ("0" :> <<"0">>) @@ ("1" :> <<"1">>) @@ ("2" :> <<"2">>) @@ ("8" :> <<"8">>)
    @@ ("255" :> <<"2", "5", "5">>)
    @@ ("0.0" :> <<"0", ".", "0">>) @@ ("1.0" :> <<"1", ".", "0">>)
    @@ ("2.0" :> <<"2", ".", "0">>)
    @@ ("0.1" :> <<"0", ".", "1">>) @@ ("0.25" :> <<"0", ".", "2", "5">>)
    @@ ("0.5" :> <<"0", ".", "5">>) @@ ("1.5" :> <<"1", ".", "5">>)
    @@ ("-0.75" :> <<"-", "0", ".", "7", "5">>)
    @@ ("8.0" :> <<"8", ".", "0">>)
    @@ ("20240108" :> <<"2", "0", "2", "4", "0", "1", "0", "8">>)

\* the characters of a string: a string that is not spelled above holds a
\* character no numeral has, and stands for itself as that character
CharsOf(s) == IF s \in DOMAIN Spell THEN Spell[s] ELSE <<s>>

\* the string of a numeral
Unspell(cs) == CHOOSE s \in DOMAIN Spell : Spell[s] = cs

\* str(x) of a node atom; str() of a list is its repr, which no tag, keyword
\* or vocabulary entry equals
StrOf(x) ==
    IF IsSym(x) THEN x.sym
    ELSE IF IsStr(x) THEN x.str
    ELSE IF IsList(x) THEN "[...]"
    ELSE Unspell(IF IsInt(x) THEN FormatInt(x.int) ELSE FormatFloat(x.num))

\* float(x) of a node
FloatOf(x) ==
    IF IsNum(x) THEN Ok(x.num)
    ELSE IF IsInt(x) THEN Ok(x.int * 100)
    ELSE IF IsList(x)
         THEN Raise("TypeError", "float() argument must be a string or a real number")
    ELSE ParseFloat(CharsOf(IF IsSym(x) THEN x.sym ELSE x.str))

\* the whole part of v hundredths, truncated towards zero
Trunc(v) == IF v < 0 THEN 0 - ((0 - v) \div 100) ELSE v \div 100

\* int(x) of a node
IntOf(x) ==
    IF IsInt(x) THEN Ok(x.int)
    ELSE IF IsNum(x) THEN Ok(Trunc(x.num))
    ELSE IF IsList(x)
         THEN Raise("TypeError", "int() argument must be a string or a real number")
    ELSE ParseInt(CharsOf(IF IsSym(x) THEN x.sym ELSE x.str))

\* the rest of a computation that has reached r: F on its value, or the
\* exception it raised
Bind(r, F(_)) == IF r.ok THEN F(r.val) ELSE r

\* the value of r as the value of an optional field
Opt(r) == IF r.ok THEN Ok(Some(r.val)) ELSE r

\* acc with the value of r in field, or the exception r raised
With(acc, field, r) == IF r.ok THEN Ok([acc EXCEPT ![field] = r.val]) ELSE r

\* try: r  except (ValueError, TypeError): raise ValueError(msg)
Caught(r, msg) ==
    IF r.ok \/ r.exc \notin {"ValueError", "TypeError"} THEN r ELSE ValueError(msg)

\* ------------------------------------------------------------- vocabularies

Layer == {"F.Cu", "F.Paste", "F.Mask", "F.SilkS", "F.Fab", "F.CrtYd", "F.Adhes"}

StrokeType == {"default", "solid", "dash", "dot", "dash_dot", "dash_dot_dot"}

PaperSize == {"A0", "A1", "A2", "A3", "A4", "A5", "A", "B", "C", "D", "E"}

\* Layer(name): the enum's lookup by value
LayerOf(name) ==
    IF name \in Layer THEN Ok(name)
    ELSE ValueError("is not a valid Layer")

\* ------------------------------------------------------------- TextEffects

\* The quoted form of the font faces of the model (f'"{face}"'), and
\* str.strip('"'), which undoes it; a string of the model that is no quoted
\* form has no quote at either end.
Quoted == ("KiCad Font" :> "\"KiCad Font\"") @@ ("" :> "\"\"")

StripQuotes(s) ==
    IF \E f \in DOMAIN Quoted : Quoted[f] = s
    THEN CHOOSE f \in DOMAIN Quoted : Quoted[f] = s
    ELSE s

\* Font(**font_data): every size-like field is validated ge=0
Font(f) ==
    IF /\ f.height >= 0
       /\ f.width >= 0
       /\ (f.thickness = None \/ f.thickness[1] >= 0)
       /\ (f.line_spacing = None \/ f.line_spacing[1] >= 0)
    THEN Ok(f)
    ELSE ValueError("Input should be greater than or equal to 0")

FontDefaults ==
    [face |-> None, height |-> 100, width |-> 100, thickness |-> None,
     bold |-> FALSE, italic |-> FALSE, line_spacing |-> None]

\* the branches of _parse_font on a list item q of two elements or more
FontField(fd, item_type, q) ==
    IF item_type = "face"
    THEN Ok([fd EXCEPT !.face = Some(StripQuotes(StrOf(q[2])))])
    ELSE IF item_type = "size"
    THEN IF Len(q) < 3 THEN ValueError("Missing font settings")
         ELSE Bind(With(fd, "height", FloatOf(q[2])),
                   LAMBDA f : With(f, "width", FloatOf(q[3])))
    ELSE IF item_type \in {"thickness", "line_spacing"}
    THEN With(fd, item_type, Opt(FloatOf(q[2])))
    ELSE Ok(fd)

\* the branches of _parse_font on an atom
FontFlag(fd, word) == IF word \in {"bold", "italic"} THEN [fd EXCEPT ![word] = TRUE] ELSE fd

\* one pass of the loop of _parse_font: item against the fields read so far
ParseFontItem(fd, item) ==
    IF ~IsList(item) THEN Ok(FontFlag(fd, StrOf(item)))
    ELSE IF Len(item.list) < 2 THEN Ok(fd)
    ELSE FontField(fd, StrOf(item.list[1]), item.list)

RECURSIVE ParseFontItems(_, _)
ParseFontItems(fd, items) ==
    IF items = <<>> THEN Ok(fd)
    ELSE Bind(ParseFontItem(fd, Head(items)),
              LAMBDA next : ParseFontItems(next, Tail(items)))

_parse_font(data) == Bind(ParseFontItems(FontDefaults, From(data.list, 1)), Font)

\* one token of a justify node
JustifyToken(acc, j_str) ==
    IF j_str \in {"left", "right"} THEN [acc EXCEPT !.justify_horizontal = Some(j_str)]
    ELSE IF j_str \in {"top", "bottom"} THEN [acc EXCEPT !.justify_vertical = Some(j_str)]
    ELSE IF j_str = "mirror" THEN [acc EXCEPT !.mirror = TRUE]
    ELSE acc

\* the inner loop over the tokens of a justify node
RECURSIVE ParseJustify(_, _)
ParseJustify(acc, js) ==
    IF js = <<>> THEN acc
    ELSE ParseJustify(JustifyToken(acc, StrOf(Head(js))), Tail(js))

\* the branches of TextEffects.from_sexp on a non-empty list item
EffectsField(acc, item_type, item) ==
    IF item_type = "font"
    THEN IF Len(item.list) < 2 THEN ValueError("Missing font settings")
         ELSE Ok([acc EXCEPT !.font = Some(item)])
    ELSE IF item_type = "justify" THEN Ok(ParseJustify(acc, From(item.list, 1)))
    ELSE Ok(acc)

\* one pass of the loop of TextEffects.from_sexp
ParseEffectsItem(acc, item) ==
    IF ~IsList(item)
    THEN Ok(IF StrOf(item) = "hide" THEN [acc EXCEPT !.hide = TRUE] ELSE acc)
    ELSE IF Len(item.list) < 1 THEN Ok(acc)
    ELSE EffectsField(acc, StrOf(item.list[1]), item)

RECURSIVE ParseEffectsItems(_, _)
ParseEffectsItems(acc, items) ==
    IF items = <<>> THEN Ok(acc)
    ELSE Bind(ParseEffectsItem(acc, Head(items)),
              LAMBDA next : ParseEffectsItems(next, Tail(items)))

\* the end of TextEffects.from_sexp: acc holds the font node in its field font
EffectsOf(acc) ==
    IF acc.font = None THEN ValueError("Missing font settings")
    ELSE With(acc, "font", _parse_font(acc.font[1]))

TextEffects_from_sexp(data) ==
    IF ~IsList(data) \/ Len(data.list) < 2
    THEN ValueError("Missing font settings")
    ELSE IF ~HeadIsSymbol(data, "effects")
    THEN ValueError("Missing font settings")
    ELSE Bind(ParseEffectsItems(
                  [font |-> None, justify_horizontal |-> None,
                   justify_vertical |-> None, mirror |-> FALSE, hide |-> FALSE],
                  From(data.list, 1)),
              EffectsOf)

\* `if x:` on an optional float: None and 0.0 are both false
TruthyFloat(o) == o # None /\ o[1] # 0

\* `if x:` on an optional string: None and "" are both false
TruthyStr(o) == o # None /\ o[1] # ""

TextEffects_to_sexp(self) ==
    LET f == self.font
        font_parts ==
            <<Sym("font")>>
            \o (IF TruthyStr(f.face)
                THEN <<L(<<Sym("face"), Str(Quoted[f.face[1]])>>)>> ELSE <<>>)
            \o <<L(<<Sym("size"), Num(f.height), Num(f.width)>>)>>
            \o (IF TruthyFloat(f.thickness)
                THEN <<L(<<Sym("thickness"), Num(f.thickness[1])>>)>> ELSE <<>>)
            \o (IF f.bold THEN <<Sym("bold")>> ELSE <<>>)
            \o (IF f.italic THEN <<Sym("italic")>> ELSE <<>>)
            \o (IF TruthyFloat(f.line_spacing)
                THEN <<L(<<Str("line_spacing"),
                           Str(Unspell(FormatFloat(f.line_spacing[1])))>>)>>
                ELSE <<>>)
        justify_parts ==
            <<Sym("justify")>>
            \o (IF self.justify_horizontal # None
                THEN <<Sym(self.justify_horizontal[1])>> ELSE <<>>)
            \o (IF self.justify_vertical # None
                THEN <<Sym(self.justify_vertical[1])>> ELSE <<>>)
            \o (IF self.mirror THEN <<Sym("mirror")>> ELSE <<>>)
    IN  L(<<Sym("effects"), L(font_parts)>>
          \o (IF self.justify_horizontal # None \/ self.justify_vertical # None
                 \/ self.mirror
              THEN <<L(justify_parts)>> ELSE <<>>)
          \o (IF self.hide THEN <<Sym("hide")>> ELSE <<>>))

\* ------------------------------------------------------------------ Stroke

\* (int(c[1]), int(c[2]), int(c[3]), int(c[4])) of the element c, from its
\* i-th value on
RECURSIVE ParseColor(_, _, _)
ParseColor(color, q, i) ==
    IF i > 5 THEN Ok(color)
    ELSE Bind(IntOf(q[i]), LAMBDA c : ParseColor(Append(color, c), q, i + 1))

\* the color of a stroke node that has a fourth element
StrokeColor(color_data) ==
    IF ~IsListOfLen(color_data, 5) THEN ValueError("Invalid color format")
    ELSE IF StrOf(color_data.list[1]) # "color"
    THEN ValueError("Color must start with 'color' symbol")
    ELSE Caught(Opt(ParseColor(<<>>, color_data.list, 2)), "Invalid color values")

\* width = float(width_data[1]); type_ = str(type_data[1]), checked against
\* the stroke types
StrokeValues(width, type_) ==
    IF type_ \notin StrokeType THEN ValueError("Invalid stroke type")
    ELSE With([type |-> type_, width |-> 0], "width", width)

Stroke_from_sexp(data) ==
    IF ~IsList(data) \/ Len(data.list) < 3
    THEN ValueError("Invalid stroke data format")
    ELSE IF StrOf(data.list[1]) # "stroke"
    THEN ValueError("Stroke data must start with 'stroke' symbol")
    ELSE IF ~IsListOfLen(data.list[2], 2) THEN ValueError("Invalid width format")
    ELSE IF ~IsListOfLen(data.list[3], 2) THEN ValueError("Invalid type format")
    ELSE IF StrOf(data.list[2].list[1]) # "width"
    THEN ValueError("Width must start with 'width' symbol")
    ELSE IF StrOf(data.list[3].list[1]) # "type"
    THEN ValueError("Type must start with 'type' symbol")
    ELSE Bind(Caught(StrokeValues(FloatOf(data.list[2].list[2]),
                                  StrOf(data.list[3].list[2])),
                     "Invalid stroke values"),
              LAMBDA st :
                  Bind(IF Len(data.list) > 3 THEN StrokeColor(data.list[4]) ELSE Ok(None),
                       LAMBDA color :
                           Ok([width |-> st.width, type |-> st.type, color |-> color])))

\* a faulty encoder, which emits an empty color node for a stroke without color
Stroke_to_sexp_Placeholder(self) ==
    L(<<Sym("stroke"),
        L(<<Sym("width"), Num(self.width)>>),
        L(<<Sym("type"), Sym(self.type)>>),
        L(<<Sym("color")>>
          \o (IF self.color # None
              THEN [i \in 1..4 |-> Str(Unspell(FormatInt(self.color[1][i])))]
              ELSE <<>>))>>)

Stroke_to_sexp(self) ==
    L(<<Sym("stroke"),
        L(<<Sym("width"), Num(self.width)>>),
        L(<<Sym("type"), Sym(self.type)>>)>>
      \o (IF self.color # None
          THEN <<L(<<Sym("color")>>
                   \o [i \in 1..4 |-> Str(Unspell(FormatInt(self.color[1][i])))])>>
          ELSE <<>>))

\* ------------------------------------------------------------------ Points

ParsePoint(item) ==
    IF ~IsListOfLen(item, 3) THEN ValueError("Invalid point format")
    ELSE IF ~HeadIsSymbol(item, "xy")
    THEN ValueError("Point must start with 'xy' symbol")
    ELSE Caught(Bind(With([x |-> 0, y |-> 0], "x", FloatOf(item.list[2])),
                     LAMBDA pt : With(pt, "y", FloatOf(item.list[3]))),
                "Invalid point coordinates")

\* the loop of Points.from_sexp: the first item that fails ends it
RECURSIVE ParsePoints(_, _)
ParsePoints(points, items) ==
    IF items = <<>> THEN Ok(points)
    ELSE Bind(ParsePoint(Head(items)),
              LAMBDA pt : ParsePoints(Append(points, pt), Tail(items)))

Points_from_sexp(data) ==
    IF ~IsList(data) \/ Len(data.list) < 2
    THEN ValueError("Invalid points data format")
    ELSE IF ~HeadIsSymbol(data, "pts")
    THEN ValueError("Points data must start with 'pts' symbol")
    ELSE With([points |-> <<>>], "points", ParsePoints(<<>>, From(data.list, 1)))

Points_to_sexp(self) ==
    L(<<Sym("pts")>>
      \o [i \in 1..Len(self.points) |->
            L(<<Sym("xy"), Num(self.points[i].x), Num(self.points[i].y)>>)])

\* ------------------------------------------------------ PositionIdentifier

\* PositionIdentifier(x=float(item[1]), y=float(item[2]),
\*                    angle=float(item[3]) if len(item) > 3 else None)
\* as Property.from_sexp and Pad.from_sexp build it from the list q of an
\* `at` node
PositionIdentifierOf(q) ==
    IF Len(q) < 2 THEN IndexError
    ELSE Bind(With([x |-> 0, y |-> 0, angle |-> None], "x", FloatOf(q[2])),
              LAMBDA at :
                  IF Len(q) < 3 THEN IndexError
                  ELSE Bind(With(at, "y", FloatOf(q[3])),
                            LAMBDA xy :
                                IF Len(q) > 3 THEN With(xy, "angle", Opt(FloatOf(q[4])))
                                ELSE Ok(xy)))

\* [Symbol("at"), x, y] + ([angle] if angle is not None else [])
AtNode(at) ==
    L(<<Sym("at"), Num(at.x), Num(at.y)>>
      \o (IF at.angle # None THEN <<Num(at.angle[1])>> ELSE <<>>))

\* ---------------------------------------------------------------- Property

\* layer = Layer(str(item[1])) of a (layer l) item of a property
PropertyLayer(q) ==
    IF Len(q) # 2 THEN ValueError("Invalid layer format")
    ELSE Caught(Opt(LayerOf(StrOf(q[2]))), "Invalid layer format")

\* the branches of Property.from_sexp on a list item
PropertyField(acc, item_type, item) ==
    IF item_type = "at" THEN With(acc, "at", Opt(PositionIdentifierOf(item.list)))
    ELSE IF item_type = "layer" THEN With(acc, "layer", PropertyLayer(item.list))
    ELSE IF item_type = "effects"
    THEN With(acc, "effects", Opt(TextEffects_from_sexp(item)))
    ELSE IF item_type \in {"uuid", "unlocked"}
    THEN IF Len(item.list) < 2 THEN IndexError
         ELSE IF item_type = "uuid"
         THEN Ok([acc EXCEPT !.uuid = Some(StrOf(item.list[2]))])
         ELSE Ok([acc EXCEPT !.unlocked = (StrOf(item.list[2]) = "yes")])
    ELSE Ok(acc)

\* a faulty pass, which ignores a bare atom other than hide
ParsePropertyItem_Lenient(acc, item) ==
    IF IsList(item)
    THEN IF item.list = <<>> THEN IndexError
         ELSE PropertyField(acc, StrOf(item.list[1]), item)
    ELSE IF StrOf(item) = "hide" THEN Ok([acc EXCEPT !.hide = TRUE])
    ELSE Ok(acc)

\* one pass of the loop of Property.from_sexp
ParsePropertyItem(acc, item) ==
    IF IsList(item)
    THEN IF item.list = <<>> THEN IndexError
         ELSE PropertyField(acc, StrOf(item.list[1]), item)
    ELSE IF StrOf(item) = "hide" THEN Ok([acc EXCEPT !.hide = TRUE])
    ELSE ValueError("Invalid optional field format")

RECURSIVE ParsePropertyItems(_, _)
ParsePropertyItems(acc, items) ==
    IF items = <<>> THEN Ok(acc)
    ELSE Bind(ParsePropertyItem(acc, Head(items)),
              LAMBDA next : ParsePropertyItems(next, Tail(items)))

Property_from_sexp(data) ==
    IF ~IsList(data) \/ Len(data.list) < 3
    THEN ValueError("Invalid property data format")
    ELSE IF ~HeadIsSymbol(data, "property")
    THEN ValueError("Property data must start with 'property' symbol")
    ELSE ParsePropertyItems(
             [key |-> StrOf(data.list[2]), value |-> StrOf(data.list[3]),
              at |-> None, unlocked |-> FALSE, layer |-> None, uuid |-> None,
              effects |-> None, hide |-> FALSE],
             From(data.list, 3))

\* a faulty encoder, which emits unlocked as a bare atom
Property_to_sexp_BareUnlocked(self) ==
    L(<<Sym("property"), Str(self.key), Str(self.value)>>
      \o (IF self.at # None THEN <<AtNode(self.at[1])>> ELSE <<>>)
      \o (IF self.unlocked THEN <<Sym("unlocked")>> ELSE <<>>)
      \o (IF TruthyStr(self.layer)
          THEN <<L(<<Sym("layer"), Str(self.layer[1])>>)>> ELSE <<>>)
      \o (IF self.effects # None THEN <<TextEffects_to_sexp(self.effects[1])>> ELSE <<>>)
      \o (IF TruthyStr(self.uuid)
          THEN <<L(<<Sym("uuid"), Str(self.uuid[1])>>)>> ELSE <<>>)
      \o (IF self.hide THEN <<Sym("hide")>> ELSE <<>>))

Property_to_sexp(self) ==
    L(<<Sym("property"), Str(self.key), Str(self.value)>>
      \o (IF self.at # None THEN <<AtNode(self.at[1])>> ELSE <<>>)
      \o (IF self.unlocked THEN <<L(<<Sym("unlocked"), Sym("yes")>>)>> ELSE <<>>)
      \o (IF TruthyStr(self.layer)
          THEN <<L(<<Sym("layer"), Str(self.layer[1])>>)>> ELSE <<>>)
      \o (IF self.effects # None THEN <<TextEffects_to_sexp(self.effects[1])>> ELSE <<>>)
      \o (IF TruthyStr(self.uuid)
          THEN <<L(<<Sym("uuid"), Str(self.uuid[1])>>)>> ELSE <<>>)
      \o (IF self.hide THEN <<Sym("hide")>> ELSE <<>>))

\* ----------------------------------------------------------------- Polygon

\* isinstance(x, list) and isinstance(x[0], Symbol) and x[0].value() == tag:
\* raises IndexError on an empty list, else answers TRUE or FALSE
TaggedList(x, tag) ==
    IF ~IsList(x) THEN Ok(FALSE)
    ELSE IF x.list = <<>> THEN IndexError
    ELSE Ok(HeadIsSymbol(x, tag))

\* isinstance(x, list) and len(x) == 2 and isinstance(x[0], Symbol)
\* and x[0].value() == tag
TaggedPair(x, tag) == IsListOfLen(x, 2) /\ HeadIsSymbol(x, tag)

\* a faulty reading, which takes every element for a bare atom
BareOrTagged_BareOnly(x, tag) == StrOf(x)

\* the value of a field given as a bare atom or as a (tag value) node:
\* str(x[1]) if x is the tagged pair, else str(x)
BareOrTagged(x, tag) == IF TaggedPair(x, tag) THEN StrOf(x.list[2]) ELSE StrOf(x)

\* the optional trailing (uuid u) at 1-based position i of the list d
TrailingUuid(d, i) ==
    IF i > Len(d) THEN Ok(None)
    ELSE Bind(TaggedList(d[i], "uuid"),
              LAMBDA tagged :
                  IF ~tagged THEN Ok(None)
                  ELSE IF Len(d[i].list) < 2 THEN IndexError
                  ELSE Ok(Some(StrOf(d[i].list[2]))))

\* the fill, the layer and the uuid of a polygon node d, the fill at 1-based
\* position ci (current_index + 1)
PolygonRest(acc, d, ci) ==
    IF BareOrTagged(d[ci], "fill") \notin {"solid", "outline", "none"}
    THEN ValueError("Invalid fill type")
    ELSE IF ci + 1 > Len(d) THEN IndexError
    ELSE Bind(With([acc EXCEPT !.fill = BareOrTagged(d[ci], "fill")], "layer",
                   LayerOf(BareOrTagged(d[ci + 1], "layer"))),
              LAMBDA poly : With(poly, "uuid", TrailingUuid(d, ci + 2)))

\* the optional stroke of a polygon node d and what follows it
PolygonStroke(acc, d, has_stroke) ==
    IF has_stroke
    THEN Bind(With(acc, "stroke", Opt(Stroke_from_sexp(d[3]))),
              LAMBDA poly : PolygonRest(poly, d, 4))
    ELSE PolygonRest(acc, d, 3)

Polygon_from_sexp(data) ==
    IF ~IsList(data) \/ Len(data.list) < 4
    THEN ValueError("Invalid polygon data format")
    ELSE IF ~HeadIsSymbol(data, "fp_poly")
    THEN ValueError("Polygon data must start with 'fp_poly' symbol")
    ELSE Bind(With([points |-> <<>>, stroke |-> None, fill |-> "solid",
                    layer |-> "", uuid |-> None],
                   "points", Points_from_sexp(data.list[2])),
              LAMBDA poly :
                  Bind(TaggedList(data.list[3], "stroke"),
                       LAMBDA has_stroke : PolygonStroke(poly, data.list, has_stroke)))

\* what Polygon.from_sexp prints: the stroke node, once Stroke.from_sexp is
\* called on it
Polygon_prints(data) ==
    IF /\ IsList(data) /\ Len(data.list) >= 4 /\ HeadIsSymbol(data, "fp_poly")
       /\ Points_from_sexp(data.list[2]).ok
       /\ TaggedList(data.list[3], "stroke") = Ok(TRUE)
    THEN <<data.list[3]>>
    ELSE <<>>

Polygon_to_sexp(self) ==
    L(<<Sym("fp_poly"), Points_to_sexp(self.points)>>
      \o (IF self.stroke # None THEN <<Stroke_to_sexp(self.stroke[1])>> ELSE <<>>)
      \o <<L(<<Sym("fill"), Sym(self.fill)>>), L(<<Sym("layer"), Str(self.layer)>>)>>
      \o (IF TruthyStr(self.uuid)
          THEN <<L(<<Sym("uuid"), Str(self.uuid[1])>>)>> ELSE <<>>))

\* -------------------------------------------------------------------- Line

\* the (start x y) or (end x y) node of a line
LinePointOk(x, tag) == IsListOfLen(x, 3) /\ HeadIsSymbol(x, tag)

\* Point(x=float(p[1]), y=float(p[2]))
LinePoint(p) ==
    Bind(With([x |-> 0, y |-> 0], "x", FloatOf(p.list[2])),
         LAMBDA pt : With(pt, "y", FloatOf(p.list[3])))

\* the stroke, the layer and the uuid of a line node d
LineRest(acc, d, has_stroke) ==
    IF ~has_stroke THEN ValueError("Invalid stroke format")
    ELSE Bind(With(acc, "stroke", Stroke_from_sexp(d[4])),
              LAMBDA l3 :
                  Bind(With(l3, "layer", LayerOf(BareOrTagged(d[5], "layer"))),
                       LAMBDA l4 : With(l4, "uuid", TrailingUuid(d, 6))))

\* the end point of a line node d and what follows it
LineEnd(acc, d) ==
    IF ~LinePointOk(d[3], "end") THEN ValueError("Invalid end point format")
    ELSE Bind(With(acc, "end", LinePoint(d[3])),
              LAMBDA l2 :
                  Bind(TaggedList(d[4], "stroke"),
                       LAMBDA has_stroke : LineRest(l2, d, has_stroke)))

Line_from_sexp(data) ==
    IF ~IsList(data) \/ Len(data.list) < 5
    THEN ValueError("Invalid line data format")
    ELSE IF ~HeadIsSymbol(data, "fp_line")
    THEN ValueError("Line data must start with 'fp_line' symbol")
    ELSE IF ~LinePointOk(data.list[2], "start")
    THEN ValueError("Invalid start point format")
    ELSE Bind(With([start |-> None, end |-> None, stroke |-> None, layer |-> "",
                    uuid |-> None],
                   "start", LinePoint(data.list[2])),
              LAMBDA l1 : LineEnd(l1, data.list))

Line_prints(data) ==
    IF /\ IsList(data) /\ Len(data.list) >= 5 /\ HeadIsSymbol(data, "fp_line")
       /\ LinePointOk(data.list[2], "start") /\ LinePoint(data.list[2]).ok
       /\ LinePointOk(data.list[3], "end") /\ LinePoint(data.list[3]).ok
       /\ TaggedList(data.list[4], "stroke") = Ok(TRUE)
    THEN <<data.list[4]>>
    ELSE <<>>

Line_to_sexp(self) ==
    L(<<Sym("fp_line"),
        L(<<Sym("start"), Num(self.start.x), Num(self.start.y)>>),
        L(<<Sym("end"), Num(self.end.x), Num(self.end.y)>>),
        Stroke_to_sexp(self.stroke),
        L(<<Sym("layer"), Str(self.layer)>>)>>
      \o (IF TruthyStr(self.uuid)
          THEN <<L(<<Sym("uuid"), Str(self.uuid[1])>>)>> ELSE <<>>))

\* --------------------------------------------------------------------- Pad

\* [Layer(str(layer)) for layer in data[6][1:]]
RECURSIVE ParseLayers(_, _)
ParseLayers(layers, items) ==
    IF items = <<>> THEN Ok(layers)
    ELSE Bind(LayerOf(StrOf(Head(items))),
              LAMBDA layer : ParseLayers(Append(layers, layer), Tail(items)))

\* a faulty branch, which files the solder mask margin as the roundrect ratio
PadField_Misfiled(acc, item_type, v) ==
    IF item_type = "solder_mask_margin" THEN With(acc, "roundrect_rratio", Opt(FloatOf(v)))
    ELSE IF item_type \in {"roundrect_rratio", "thermal_bridge_angle"}
    THEN With(acc, item_type, Opt(FloatOf(v)))
    ELSE IF item_type = "uuid" THEN Ok([acc EXCEPT !.uuid = Some(StrOf(v))])
    ELSE Ok(acc)

\* the branches of the loop over the optional attributes of a pad, v the
\* second element of the item
PadField(acc, item_type, v) ==
    IF item_type \in {"roundrect_rratio", "solder_mask_margin", "thermal_bridge_angle"}
    THEN With(acc, item_type, Opt(FloatOf(v)))
    ELSE IF item_type = "uuid" THEN Ok([acc EXCEPT !.uuid = Some(StrOf(v))])
    ELSE Ok(acc)

\* one pass of the loop over the optional attributes of a pad
ParsePadItem(acc, item) ==
    IF ~IsList(item) \/ Len(item.list) < 2 THEN Ok(acc)
    ELSE PadField(acc, StrOf(item.list[1]), item.list[2])

RECURSIVE ParsePadItems(_, _)
ParsePadItems(acc, items) ==
    IF items = <<>> THEN Ok(acc)
    ELSE Bind(ParsePadItem(acc, Head(items)),
              LAMBDA next : ParsePadItems(next, Tail(items)))

\* not isinstance(x, list) or len(x) < n or not isinstance(x[0], Symbol)
\* or x[0].value() != tag, for n >= 1
NotTaggedMin(x, n, tag) == ~IsList(x) \/ Len(x.list) < n \/ ~HeadIsSymbol(x, tag)

\* (float(size[1]), float(size[2]))
PadSize(q) ==
    Bind(FloatOf(q[2]), LAMBDA w : Bind(FloatOf(q[3]), LAMBDA h : Ok(<<w, h>>)))

\* the layers of a pad node d and its optional attributes
PadLayersOf(acc, d) ==
    IF NotTaggedMin(d[7], 2, "layers") THEN ValueError("Invalid pad layers format")
    ELSE Bind(With(acc, "layers", ParseLayers(<<>>, From(d[7].list, 1))),
              LAMBDA pad : ParsePadItems(pad, From(d, 7)))

\* the size of a pad node d and what follows it
PadSizeOf(acc, d) ==
    IF ~IsListOfLen(d[6], 3) \/ ~HeadIsSymbol(d[6], "size")
    THEN ValueError("Invalid pad size format")
    ELSE Bind(With(acc, "size", PadSize(d[6].list)), LAMBDA pad : PadLayersOf(pad, d))

Pad_from_sexp(data) ==
    IF ~IsList(data) \/ Len(data.list) < 7
    THEN ValueError("Invalid pad data format")
    ELSE IF ~HeadIsSymbol(data, "pad")
    THEN ValueError("Pad data must start with 'pad' symbol")
    ELSE IF NotTaggedMin(data.list[5], 3, "at")
    THEN ValueError("Invalid pad position format")
    ELSE Bind(With([number |-> StrOf(data.list[2]), type |-> StrOf(data.list[3]),
                    shape |-> StrOf(data.list[4]), at |-> None, size |-> <<>>,
                    layers |-> <<>>, roundrect_rratio |-> None,
                    solder_mask_margin |-> None, thermal_bridge_angle |-> None,
                    uuid |-> None],
                   "at", PositionIdentifierOf(data.list[5].list)),
              LAMBDA pad : PadSizeOf(pad, data.list))

\* a faulty encoder, which emits the bare tag for an optional float that is None
OptionalFloatNode_Placeholder(tag, o) ==
    IF o # None THEN <<L(<<Sym(tag), Num(o[1])>>)>> ELSE <<L(<<Sym(tag)>>)>>

\* [Symbol(tag), value] for an optional float that is not None
OptionalFloatNode(tag, o) == IF o # None THEN <<L(<<Sym(tag), Num(o[1])>>)>> ELSE <<>>

Pad_to_sexp(self) ==
    L(<<Sym("pad"), Str(self.number), Sym(self.type), Sym(self.shape),
        AtNode(self.at),
        L(<<Sym("size"), Num(self.size[1]), Num(self.size[2])>>),
        L(<<Sym("layers")>> \o [i \in 1..Len(self.layers) |-> Str(self.layers[i])])>>
      \o OptionalFloatNode("roundrect_rratio", self.roundrect_rratio)
      \o OptionalFloatNode("solder_mask_margin", self.solder_mask_margin)
      \o OptionalFloatNode("thermal_bridge_angle", self.thermal_bridge_angle)
      \o (IF TruthyStr(self.uuid)
          THEN <<L(<<Sym("uuid"), Str(self.uuid[1])>>)>> ELSE <<>>))

\* ---------------------------------------------------------- FootprintModel

\* acc with the value of r appended to the list in field, or the exception r
\* raised
Appended(acc, field, r) ==
    IF r.ok THEN Ok([acc EXCEPT ![field] = Append(@, r.val)]) ELSE r

\* a faulty dispatch, which puts a property in front of those seen before it
ChildField_Prepending(acc, item_type, item) ==
    IF item_type = "property"
    THEN Bind(Property_from_sexp(item),
              LAMBDA p : Ok([acc EXCEPT !.properties = <<p>> \o @]))
    ELSE IF item_type = "fp_poly" THEN Appended(acc, "polygons", Polygon_from_sexp(item))
    ELSE IF item_type = "fp_line" THEN Appended(acc, "lines", Line_from_sexp(item))
    ELSE IF item_type = "pad" THEN Appended(acc, "pads", Pad_from_sexp(item))
    ELSE Ok(acc)

\* the dispatch of a child of a footprint on its tag
ChildField(acc, item_type, item) ==
    IF item_type = "property" THEN Appended(acc, "properties", Property_from_sexp(item))
    ELSE IF item_type = "fp_poly" THEN Appended(acc, "polygons", Polygon_from_sexp(item))
    ELSE IF item_type = "fp_line" THEN Appended(acc, "lines", Line_from_sexp(item))
    ELSE IF item_type = "pad" THEN Appended(acc, "pads", Pad_from_sexp(item))
    ELSE Ok(acc)

\* one pass of the loop over the children of a footprint
ParseChild(acc, item) ==
    IF ~IsList(item) \/ Len(item.list) < 1 THEN Ok(acc)
    ELSE ChildField(acc, StrOf(item.list[1]), item)

RECURSIVE ParseChildren(_, _)
ParseChildren(acc, items) ==
    IF items = <<>> THEN Ok(acc)
    ELSE Bind(ParseChild(acc, Head(items)),
              LAMBDA next : ParseChildren(next, Tail(items)))

\* the six header fields of a footprint node, with no child yet
FootprintHeader(data) ==
    IF ~IsList(data) \/ Len(data.list) < 7
    THEN ValueError("Invalid footprint data format")
    ELSE IF ~HeadIsSymbol(data, "footprint")
    THEN ValueError("Footprint data must start with 'footprint' symbol")
    ELSE IF ~TaggedPair(data.list[3], "version") THEN ValueError("Invalid version format")
    ELSE IF ~TaggedPair(data.list[4], "generator")
    THEN ValueError("Invalid generator format")
    ELSE IF ~TaggedPair(data.list[5], "generator_version")
    THEN ValueError("Invalid generator version format")
    ELSE IF ~TaggedPair(data.list[6], "layer") THEN ValueError("Invalid layer format")
    ELSE IF ~TaggedPair(data.list[7], "descr")
    THEN Bind(LayerOf(StrOf(data.list[6].list[2])),
              LAMBDA layer : ValueError("Invalid description format"))
    ELSE With([name |-> StrOf(data.list[2]),
               version |-> StrOf(data.list[3].list[2]),
               generator |-> StrOf(data.list[4].list[2]),
               generator_version |-> StrOf(data.list[5].list[2]),
               layer |-> "", description |-> StrOf(data.list[7].list[2]),
               properties |-> <<>>, polygons |-> <<>>, lines |-> <<>>, pads |-> <<>>],
              "layer", LayerOf(StrOf(data.list[6].list[2])))

FootprintModel_from_sexp(data) ==
    Bind(FootprintHeader(data), LAMBDA model : ParseChildren(model, From(data.list, 7)))

\* what the decoding of a child of a footprint prints
ChildPrints(item) ==
    IF ~IsList(item) \/ Len(item.list) < 1 THEN <<>>
    ELSE IF StrOf(item.list[1]) = "fp_poly" THEN Polygon_prints(item)
    ELSE IF StrOf(item.list[1]) = "fp_line" THEN Line_prints(item)
    ELSE <<>>

\* what the loop over the children prints: it ends at the first child that
\* fails
RECURSIVE ChildrenPrints(_, _)
ChildrenPrints(acc, items) ==
    IF items = <<>> THEN <<>>
    ELSE ChildPrints(Head(items))
         \o (IF ParseChild(acc, Head(items)).ok
             THEN ChildrenPrints(acc, Tail(items)) ELSE <<>>)

FootprintModel_prints(data) ==
    IF FootprintHeader(data).ok
    THEN ChildrenPrints(FootprintHeader(data).val, From(data.list, 7))
    ELSE <<>>

FootprintModel_to_sexp(self) ==
    L(<<Sym("footprint"), Str(self.name),
        L(<<Sym("version"), Str(self.version)>>),
        L(<<Sym("generator"), Str(self.generator)>>),
        L(<<Sym("generator_version"), Str(self.generator_version)>>),
        L(<<Sym("layer"), Str(self.layer)>>),
        L(<<Sym("descr"), Str(self.description)>>)>>
      \o [i \in 1..Len(self.properties) |-> Property_to_sexp(self.properties[i])]
      \o [i \in 1..Len(self.polygons) |-> Polygon_to_sexp(self.polygons[i])]
      \o [i \in 1..Len(self.lines) |-> Line_to_sexp(self.lines[i])]
      \o [i \in 1..Len(self.pads) |-> Pad_to_sexp(self.pads[i])])

\* ------------------------------------------------------------------- Layer

\* Layer.from_sexp(data): data is a string (or a Symbol, which is one)
Layer_from_sexp(data) ==
    IF (IsSym(data) \/ IsStr(data)) /\ StrOf(data) \in Layer
    THEN Ok(StrOf(data))
    ELSE ValueError("Invalid layer name")

Layer_from_sexp_list(data) ==
    IF ~IsListOfLen(data, 2) THEN ValueError("Invalid layer data format")
    ELSE IF ~HeadIsSymbol(data, "layer")
    THEN ValueError("Layer data must start with 'layer' symbol")
    ELSE IF StrOf(data.list[2]) \in Layer THEN Ok(StrOf(data.list[2]))
    ELSE ValueError("Invalid layer name")

Layer_to_sexp(self) == L(<<Sym("layer"), Str(self)>>)

\* --------------------------------------------------------------------- text

WS == {" ", "\n", "\t"}

\* str.lstrip()
LStrip(cs) ==
    SubSeq(cs, Min({j \in 1..Len(cs) : cs[j] \notin WS} \cup {Len(cs) + 1}), Len(cs))

\* str.rstrip()
RStrip(cs) == SubSeq(cs, 1, Max({j \in 1..Len(cs) : cs[j] \notin WS} \cup {0}))

\* str.strip()
Strip(cs) == RStrip(LStrip(cs))

\* re.sub(r"\s+", " ", cs): every run of blanks becomes one space
Collapse(cs) ==
    LET marked == [i \in 1..Len(cs) |->
                     IF cs[i] \notin WS THEN cs[i]
                     ELSE IF i > 1 /\ cs[i - 1] \in WS THEN "" ELSE " "]
    IN  SelectSeq(marked, LAMBDA c : c # "")

\* re.sub(r"\s+", " ", sexpr.strip())
Normalise(sexpr) == Collapse(Strip(sexpr))

StartsWith(cs, prefix) == Len(cs) >= Len(prefix) /\ SubSeq(cs, 1, Len(prefix)) = prefix

EndsWith(cs, suffix) ==
    Len(cs) >= Len(suffix) /\ SubSeq(cs, Len(cs) - Len(suffix) + 1, Len(cs)) = suffix

\* cs[n:-1] of a Python string
Inner(cs, n) == SubSeq(cs, n + 1, Len(cs) - 1)

\* the length of the first word of a text that starts with no blank
WordLen(cs) == Min({j \in 1..Len(cs) : cs[j] \in WS} \cup {Len(cs) + 1}) - 1

\* str.split(): the words between runs of blanks
RECURSIVE Split(_)
Split(cs) ==
    LET r == LStrip(cs)
        n == WordLen(r)
    IN  IF r = <<>> THEN <<>>
        ELSE <<SubSeq(r, 1, n)>> \o Split(SubSeq(r, n + 1, Len(r)))

\* str.replace(pat, ""), for a non-empty pat
RECURSIVE RemoveAll(_, _)
RemoveAll(cs, pat) ==
    IF cs = <<>> THEN <<>>
    ELSE IF StartsWith(cs, pat) THEN RemoveAll(SubSeq(cs, Len(pat) + 1, Len(cs)), pat)
    ELSE <<cs[1]>> \o RemoveAll(Tail(cs), pat)

\* str.strip(chars)
RECURSIVE StripChars(_, _)
StripChars(cs, chars) ==
    IF cs # <<>> /\ cs[1] \in chars THEN StripChars(Tail(cs), chars)
    ELSE IF cs # <<>> /\ cs[Len(cs)] \in chars
    THEN StripChars(SubSeq(cs, 1, Len(cs) - 1), chars)
    ELSE cs

\* " ".join(words)
RECURSIVE Join(_)
Join(words) ==
    IF words = <<>> THEN <<>>
    ELSE IF Len(words) = 1 THEN words[1]
    ELSE words[1] \o <<" ">> \o Join(Tail(words))

\* the spelling of the vocabulary entries and keywords that occur in texts
LayerText ==
    ("F.Cu" :> <<"F", ".", "C", "u">>)
    @@ ("F.Paste" :> <<"F", ".", "P", "a", "s", "t", "e">>)
    @@ ("F.Mask" :> <<"F", ".", "M", "a", "s", "k">>)
    @@ ("F.SilkS" :> <<"F", ".", "S", "i", "l", "k", "S">>)
    @@ ("F.Fab" :> <<"F", ".", "F", "a", "b">>)
    @@ ("F.CrtYd" :> <<"F", ".", "C", "r", "t", "Y", "d">>)
    @@ ("F.Adhes" :> <<"F", ".", "A", "d", "h", "e", "s">>)

PaperSizeText ==
    ("A0" :> <<"A", "0">>)
    @@ ("A1" :> <<"A", "1">>)
    @@ ("A2" :> <<"A", "2">>)
    @@ ("A3" :> <<"A", "3">>)
    @@ ("A4" :> <<"A", "4">>)
    @@ ("A5" :> <<"A", "5">>)
    @@ ("A" :> <<"A">>)
    @@ ("B" :> <<"B">>)
    @@ ("C" :> <<"C">>)
    @@ ("D" :> <<"D">>)
    @@ ("E" :> <<"E">>)

T_at == <<"(", "a", "t">>

T_paper == <<"(", "p", "a", "p", "e", "r">>

T_uuid == <<"(", "u", "u", "i", "d">>

T_image == <<"(", "i", "m", "a", "g", "e">>

T_scale == <<"(", "s", "c", "a", "l", "e">>

T_layer == <<"(", "l", "a", "y", "e", "r">>

T_data == <<"(", "d", "a", "t", "a">>

T_portrait == <<"p", "o", "r", "t", "r", "a", "i", "t">>

\* Layer(text): the enum's lookup by value
LayerOfText(cs) ==
    IF \E l \in Layer : LayerText[l] = cs
    THEN Ok(CHOOSE l \in Layer : LayerText[l] = cs)
    ELSE ValueError("is not a valid Layer")

\* PaperSize(text)
PaperSizeOfText(cs) ==
    IF \E z \in PaperSize : PaperSizeText[z] = cs
    THEN Ok(CHOOSE z \in PaperSize : PaperSizeText[z] = cs)
    ELSE ValueError("is not a valid PaperSize")

\* ------------------------------------------- PositionIdentifier (text form)

PositionIdentifier_from_sexpr(sexpr) ==
    LET s == Normalise(sexpr)
        parts == Split(Strip(Inner(s, 3)))
        x == ParseFloat(parts[1])
        y == ParseFloat(parts[2])
        angle == ParseFloat(parts[3])
    IN  IF ~StartsWith(s, T_at) \/ ~EndsWith(s, <<")">>)
        THEN ValueError("Invalid position identifier format")
        ELSE IF Len(parts) < 2 \/ Len(parts) > 3
        THEN ValueError("Position identifier must have 2 or 3 components")
        ELSE IF ~x.ok \/ ~y.ok \/ (Len(parts) = 3 /\ ~angle.ok)
        THEN ValueError("Invalid numeric values in position identifier")
        ELSE Ok([x |-> x.val, y |-> y.val,
                 angle |-> IF Len(parts) = 3 THEN Some(angle.val) ELSE None])

\* a faulty encoder, which tests the angle for truth and so drops an angle of 0
PositionIdentifier_to_sexpr_Truthy(self) ==
    T_at \o <<" ">> \o FormatFloat(self.x) \o <<" ">> \o FormatFloat(self.y)
    \o (IF TruthyFloat(self.angle) THEN <<" ">> \o FormatFloat(self.angle[1]) ELSE <<>>)
    \o <<")">>

PositionIdentifier_to_sexpr(self) ==
    T_at \o <<" ">> \o FormatFloat(self.x) \o <<" ">> \o FormatFloat(self.y)
    \o (IF self.angle # None THEN <<" ">> \o FormatFloat(self.angle[1]) ELSE <<>>)
    \o <<")">>

\* ------------------------------------------------------------ PageSettings

\* A custom size is a pair of floats: [custom |-> <<w, h>>] in hundredths, or
\* [fine |-> <<w, h>>] in hundred-thousandths when a dimension is below 0.0001.
\* The fine sizes of the model have dimensions of one digit times 0.00001 or
\* of a whole number of hundredths.
Dimensions(size) == IF "fine" \in DOMAIN size THEN size.fine ELSE size.custom

\* PageSettings.validate_size: a custom size has both dimensions positive
validate_size(v) ==
    IF "paper" \notin DOMAIN v /\ (LeZero(Dimensions(v)[1]) \/ LeZero(Dimensions(v)[2]))
    THEN ValueError("Width and height must be positive")
    ELSE Ok(v)

\* str(v) of the float of n hundred-thousandths, n > 0: repr takes the
\* exponent form below 0.0001
FormatFine(n) ==
    IF n < 10 THEN <<DigitChar(n), "e", "-", "0", "5">> ELSE FormatFloat(n \div 1000)

\* part.replace(".", "").replace("-", "").isdigit()
LooksNumeric(part) ==
    LET bare == RemoveAll(RemoveAll(part, <<".">>), <<"-">>)
    IN  bare # <<>> /\ AllDigits(bare)

PageSettings_from_sexpr(sexpr) ==
    LET s == Normalise(sexpr)
        parts == Split(Strip(Inner(s, 6)))
        n == Len(parts)
        width == ParseFloat(parts[1])
        height == ParseFloat(parts[2])
        paper == PaperSizeOfText(parts[1])
        numeric == ValueError("Invalid numeric values in page settings")
    IN  IF ~StartsWith(s, T_paper) \/ ~EndsWith(s, <<")">>)
        THEN ValueError("Invalid page settings format")
        ELSE IF n < 1
        THEN ValueError("Page settings must have at least one component")
        ELSE IF n >= 2 /\ LooksNumeric(parts[1]) /\ LooksNumeric(parts[2])
        THEN IF n > 3 \/ (n = 3 /\ parts[3] # T_portrait) THEN numeric
             ELSE IF ~width.ok \/ ~height.ok THEN numeric
             ELSE IF width.val <= 0 \/ height.val <= 0 THEN numeric
             ELSE Ok([size |-> [custom |-> <<width.val, height.val>>],
                      portrait |-> (n = 3)])
        ELSE IF n > 2 \/ (n = 2 /\ parts[2] # T_portrait) THEN numeric
        ELSE IF ~paper.ok THEN ValueError("Invalid paper size")
        ELSE Ok([size |-> [paper |-> paper.val], portrait |-> (n = 2)])

PageSettings_to_sexpr(self) ==
    T_paper \o <<" ">>
    \o (IF "custom" \in DOMAIN self.size
        THEN FormatFloat(self.size.custom[1]) \o <<" ">> \o FormatFloat(self.size.custom[2])
        ELSE IF "fine" \in DOMAIN self.size
        THEN FormatFine(self.size.fine[1]) \o <<" ">> \o FormatFine(self.size.fine[2])
        ELSE PaperSizeText[self.size.paper])
    \o (IF self.portrait THEN <<" ">> \o T_portrait ELSE <<>>)
    \o <<")">>

\* -------------------------------------------------------------------- UUID

HexDigits == Digits \cup {"a", "b", "c", "d", "e", "f", "A", "B", "C", "D", "E", "F"}

\* UUID.validate_uuid: uuid.UUID(v) drops "urn:" and "uuid:", braces at the
\* ends and every hyphen, wants 32 characters, and reads them with
\* int(hex, 16), which drops surrounding blanks and a sign before the digits
\* (the texts of the model hold no 0x prefix and no underscore)
validate_uuid(v) ==
    LET hex == RemoveAll(StripChars(RemoveAll(RemoveAll(v, <<"u", "r", "n", ":">>),
                                              <<"u", "u", "i", "d", ":">>),
                                    {"{", "}"}),
                         <<"-">>)
    IN  IF Len(hex) = 32 /\ Unsign(Strip(hex)) # <<>>
           /\ \A i \in 1..Len(Unsign(Strip(hex))) : Unsign(Strip(hex))[i] \in HexDigits
        THEN Ok([value |-> v])
        ELSE ValueError("Invalid UUID format")

UUID_from_sexpr(sexpr) ==
    LET s == Normalise(sexpr)
        parts == Split(Strip(Inner(s, 5)))
    IN  IF ~StartsWith(s, T_uuid) \/ ~EndsWith(s, <<")">>)
        THEN ValueError("Invalid UUID format")
        ELSE IF Len(parts) # 1 THEN ValueError("UUID must have exactly one component")
        ELSE validate_uuid(parts[1])

UUID_to_sexpr(self) == T_uuid \o <<" ">> \o self.value \o <<")">>

\* ------------------------------------------------------------------- Image

\* the index of the first occurrence of character c in cs at or after i, or 0
IndexFrom(cs, c, i) ==
    IF \E j \in i..Len(cs) : cs[j] = c THEN Min({j \in i..Len(cs) : cs[j] = c}) ELSE 0

\* re.search(r"\(tag\s+([^)]+)\)", cs) tried at position i of a text whose
\* blanks are single spaces: the end of the match, or 0
PlainEnd(cs, tag, i) ==
    LET k == i + Len(tag)
        j == IndexFrom(cs, ")", k + 1)
    IN  IF k <= Len(cs) /\ SubSeq(cs, i, k - 1) = tag /\ cs[k] \in WS /\ j >= k + 2
        THEN j ELSE 0

\* re.search(r'\(tag\s+"([^"]+)"\)', cs) tried at position i: the index of
\* the closing quote, or 0
QuotedEnd(cs, tag, i) ==
    LET k == i + Len(tag)
        q == IndexFrom(cs, "\"", k + 2)
    IN  IF /\ k + 1 <= Len(cs) /\ SubSeq(cs, i, k - 1) = tag /\ cs[k] \in WS
           /\ cs[k + 1] = "\"" /\ q >= k + 3 /\ q + 1 <= Len(cs) /\ cs[q + 1] = ")"
        THEN q ELSE 0

\* the leftmost match of the plain pattern: None, or [whole, group]
SearchPlain(cs, tag) ==
    LET hits == {i \in 1..Len(cs) : PlainEnd(cs, tag, i) # 0}
        i == CHOOSE h \in hits : \A g \in hits : h <= g
        j == PlainEnd(cs, tag, i)
    IN  IF hits = {} THEN None
        ELSE Some([whole |-> SubSeq(cs, i, j),
                   group |-> SubSeq(cs, i + Len(tag) + 1, j - 1)])

\* the leftmost match of the quoted pattern: None, or the group
SearchQuoted(cs, tag) ==
    LET hits == {i \in 1..Len(cs) : QuotedEnd(cs, tag, i) # 0}
        i == CHOOSE h \in hits : \A g \in hits : h <= g
    IN  IF hits = {} THEN None
        ELSE Some(SubSeq(cs, i + Len(tag) + 2, QuotedEnd(cs, tag, i) - 1))

\* Image.validate_scale
validate_scale(v) ==
    IF v # None /\ LeZero(v[1]) THEN ValueError("Scale must be positive") ELSE Ok(v)

Image_from_sexpr(sexpr) ==
    LET s == Normalise(sexpr)
        content == Strip(Inner(s, 6))
        at_match == SearchPlain(content, T_at)
        scale_match == SearchPlain(content, T_scale)
        layer_match == SearchQuoted(content, T_layer)
        uuid_match == SearchQuoted(content, T_uuid)
        data_match == SearchQuoted(content, T_data)
        at == PositionIdentifier_from_sexpr(at_match[1].whole)
        scale == IF scale_match = None THEN Ok(None)
                 ELSE LET f == ParseFloat(Strip(scale_match[1].group))
                      IN  IF f.ok THEN Ok(Some(f.val)) ELSE f
        layer == IF layer_match = None THEN Ok(None)
                 ELSE LET l == LayerOfText(layer_match[1])
                      IN  IF l.ok THEN Ok(Some(l.val)) ELSE l
        uuid == UUID_from_sexpr(T_uuid \o <<" ">> \o uuid_match[1] \o <<")">>)
        invalid == ValueError("Invalid image values")
    IN  IF ~StartsWith(s, T_image) \/ ~EndsWith(s, <<")">>)
        THEN ValueError("Invalid image format")
        ELSE IF at_match = None \/ uuid_match = None \/ data_match = None
        THEN ValueError("Missing required image components")
        ELSE IF ~at.ok \/ ~scale.ok \/ ~layer.ok \/ ~uuid.ok THEN invalid
        ELSE IF ~validate_scale(scale.val).ok THEN invalid
        ELSE Ok([at |-> at.val, scale |-> scale.val, layer |-> layer.val,
                 uuid |-> uuid.val, data |-> data_match[1]])

Image_to_sexpr(self) ==
    <<"(">>
    \o Join(<<Tail(T_image), PositionIdentifier_to_sexpr(self.at)>>
            \o (IF self.scale # None
                THEN <<T_scale \o <<" ">> \o FormatFloat(self.scale[1]) \o <<")">>>>
                ELSE <<>>)
            \o (IF self.layer # None
                THEN <<T_layer \o <<" ", "\"">> \o LayerText[self.layer[1]]
                       \o <<"\"", ")">>>>
                ELSE <<>>)
            \o <<T_uuid \o <<" ", "\"">> \o self.uuid.value \o <<"\"", ")">>,
                 T_data \o <<" ", "\"">> \o self.data \o <<"\"", ")">>>>)
    \o <<")">>

\* ------------------------------------------------------------------ inputs
\* What the application and the tokenizer hand to the engine: entities built
\* with the constructors, node trees and texts, sound and malformed.

MaxCalls == 3

MaxTail == 2

MaxChildren == 3

\* every sequence over S of length at most n
SeqsUpTo(S, n) == UNION {[1..k -> S] : k \in 0..n}

Uuid1 == "4730c81d-f4ad-4788-8015-fd6db48f4259"

UuidNode == L(<<Sym("uuid"), Str(Uuid1)>>)

Uuid2 == "00000000-0000-0000-0000-000000000000"

UuidNode2 == L(<<Sym("uuid"), Str(Uuid2)>>)

\* strokes
StrokeEntities ==
    [width : {0, 5}, type : {"default", "solid"},
     color : {None, Some(<<255, 0, 0, 255>>), Some(<<0, 0, 0, 0>>)}]

StrokeNode(tag, w, ty, tail) ==
    L(<<tag, L(<<Sym("width"), w>>), L(<<Sym("type"), ty>>)>> \o tail)

ColorNodes ==
    {L(<<Sym("color"), Str("255"), Str("0"), Str("0"), Str("255")>>),
     L(<<Sym("color"), IntAtom(0), IntAtom(0), IntAtom(0), IntAtom(1)>>),
     L(<<Sym("color"), Str("255"), Str("invalid"), Str("0"), Str("255")>>),
     L(<<Sym("colour"), Str("255"), Str("0"), Str("0"), Str("255")>>),
     L(<<Sym("color"), Str("255"), Str("0"), Str("0")>>)}

StrokeNodes ==
    {StrokeNode(tag, w, ty, tail) :
        tag \in {Sym("stroke"), Str("stroke")},
        w \in {Str("0.1"), IntAtom(0), Num(5), Str("invalid")},
        ty \in {Sym("default"), Str("solid"), Sym("dash_dot_dot"), Str("Solid"),
                Str("invalid_type")},
        tail \in {<<>>} \cup {<<c>> : c \in ColorNodes}}
    \cup {L(<<Sym("stroke"), L(<<Sym("width"), Str("0.1")>>)>>),
          StrokeNode(Sym("not_a_stroke"), Str("0.1"), Sym("solid"), <<>>),
          L(<<Sym("stroke"), L(<<Sym("type"), Sym("solid")>>),
              L(<<Sym("width"), Str("0.1")>>)>>),
          Sym("stroke")}

Stroke0 == StrokeNode(Sym("stroke"), IntAtom(0), Str("default"), <<>>)

\* points
XY(x, y) == L(<<Sym("xy"), x, y>>)

PointsEntities ==
    {[points |-> q] : q \in {<<>>, <<[x |-> 0, y |-> 0]>>,
                             <<[x |-> -20, y |-> 30], [x |-> 20, y |-> 30],
                               [x |-> 20, y |-> -30]>>}}

Pts0 == L(<<Sym("pts")>>)

Pts3 == L(<<Sym("pts"), XY(Num(-20), Num(30)), XY(Num(20), Num(30)), XY(Num(20), Num(-30))>>)

PointsNodes ==
    {Pts0, Pts3,
     L(<<Sym("pts"), XY(IntAtom(0), IntAtom(0))>>),
     L(<<Sym("pts"), XY(Str("0.5"), Str("1.5")), XY(IntAtom(1), IntAtom(0))>>),
     L(<<Sym("pts"), XY(IntAtom(0), Str("x"))>>),
     L(<<Sym("pts"), L(<<Sym("xy"), IntAtom(0)>>)>>),
     L(<<Sym("pts"), L(<<Sym("yx"), IntAtom(0), IntAtom(0)>>)>>),
     L(<<Sym("points"), XY(IntAtom(0), IntAtom(0))>>),
     L(<<Str("pts"), XY(IntAtom(0), IntAtom(0))>>),
     Sym("pts")}

\* polygons
PolygonEntities ==
    [points : PointsEntities,
     stroke : {None, Some([width |-> 0, type |-> "default", color |-> None])},
     fill : {"solid", "outline", "none", "hatched"},
     layer : {"F.Adhes", "F.Cu"},
     uuid : {None, Some(Uuid1), Some("")}]

PolygonNodes ==
    {L(<<Sym("fp_poly"), pts>> \o st \o <<fill, layer>> \o uu) :
        pts \in {Pts0, Pts3},
        st \in {<<>>, <<Stroke0>>,
                <<StrokeNode(Sym("stroke"), Str("0.1"), Str("invalid_type"), <<>>)>>},
        fill \in {Str("solid"), Sym("outline"), L(<<Sym("fill"), Sym("none")>>),
                  Str("invalid_fill"), L(<<Sym("fill"), Sym("hatched")>>)},
        layer \in {Str("F.Adhes"), L(<<Sym("layer"), Str("F.Cu")>>),
                   Str("InvalidLayer"), Str("f.cu"),
                   L(<<Sym("layer"), Str("B.Cu")>>)},
        uu \in {<<>>, <<UuidNode>>}}
    \cup {L(<<Sym("fp_poly"), Pts0>>),
          L(<<Sym("fp_poly"), Pts3, Stroke0, Str("solid"), Str("F.Adhes"), UuidNode, UuidNode2>>),
          L(<<Sym("fp_poly"), Pts3, Stroke0, Str("solid"), Str("F.Adhes"),
              L(<<Sym("uuid"), Str("invalid-uuid")>>)>>),
          L(<<Sym("fp_poly"), Pts3, Stroke0, Str("solid"), Str("F.Adhes"),
              L(<<Sym("tstamp"), Str("x")>>), UuidNode>>),
          L(<<Sym("not_a_polygon"), Pts0, Stroke0, Str("solid"), Str("F.Adhes")>>),
          L(<<Sym("fp_poly"), Pts3, Stroke0, Str("solid")>>),
          L(<<Sym("fp_poly"), Pts3, L(<<>>), Str("solid"), Str("F.Adhes")>>)}

\* lines
LineEntities ==
    [start : {[x |-> -148, y |-> 73]}, end : {[x |-> 148, y |-> 73]},
     stroke : {[width |-> 5, type |-> "solid", color |-> None],
               [width |-> 5, type |-> "dash", color |-> Some(<<255, 0, 0, 255>>)]},
     layer : {"F.CrtYd"},
     uuid : {None, Some(Uuid1), Some("")}]

LineNodes ==
    {L(<<Sym("fp_line"), st, L(<<Sym("end"), Num(148), Num(73)>>), sk, layer>> \o uu) :
        st \in {L(<<Sym("start"), Num(-148), Num(73)>>),
                L(<<Sym("start"), Str("x"), Num(73)>>),
                L(<<Sym("start"), Num(-148)>>)},
        sk \in {StrokeNode(Sym("stroke"), Num(5), Sym("solid"), <<>>),
                StrokeNode(Sym("stroke"), Num(5), Sym("wavy"), <<>>),
                Str("solid")},
        layer \in {Str("F.CrtYd"), L(<<Sym("layer"), Str("F.CrtYd")>>),
                   Str("F.Crtyd"), L(<<Sym("layer"), Str("Edge.Cuts")>>)},
        uu \in {<<>>, <<UuidNode>>}}
    \cup {L(<<Sym("fp_line"), L(<<Sym("start"), Num(-148), Num(73)>>),
              L(<<Sym("end"), Num(148), Num(73)>>),
              StrokeNode(Sym("stroke"), Num(5), Sym("solid"), <<>>)>>),
          L(<<Sym("fp_line"), L(<<Sym("start"), Num(-148), Num(73)>>),
              L(<<Sym("end"), Num(148), Num(73)>>),
              StrokeNode(Sym("stroke"), Num(5), Sym("solid"), <<>>), Str("F.CrtYd"),
              UuidNode, UuidNode2>>),
          L(<<Sym("fp_line"), L(<<Sym("start"), Num(-148), Num(73)>>),
              L(<<Sym("end"), Num(148), Num(73)>>),
              StrokeNode(Sym("stroke"), Num(5), Sym("solid"), <<>>), Str("F.CrtYd"),
              L(<<Sym("tstamp"), Str("x")>>), UuidNode>>),
          L(<<Sym("line"), L(<<Sym("start"), Num(-148), Num(73)>>),
              L(<<Sym("end"), Num(148), Num(73)>>),
              StrokeNode(Sym("stroke"), Num(5), Sym("solid"), <<>>), Str("F.CrtYd")>>)}

\* text effects
FontEntities ==
    [face : {None, Some("KiCad Font"), Some("")}, height : {100}, width : {100, 150},
     thickness : {None, Some(20), Some(0)}, bold : BOOLEAN, italic : {FALSE},
     line_spacing : {None, Some(150)}]

Font1 ==
    [face |-> None, height |-> 100, width |-> 100, thickness |-> None,
     bold |-> FALSE, italic |-> FALSE, line_spacing |-> None]

TextEffectsEntities ==
    [font : FontEntities, justify_horizontal : {None}, justify_vertical : {None},
     mirror : {FALSE}, hide : {FALSE}]
    \cup [font : {Font1, [Font1 EXCEPT !.italic = TRUE]},
          justify_horizontal : {None, Some("left"), Some("right")},
          justify_vertical : {None, Some("top")}, mirror : BOOLEAN, hide : BOOLEAN]

SizeNode == L(<<Sym("size"), Sym("1.0"), Sym("1.0")>>)

FontNode1 == L(<<Sym("font"), SizeNode>>)

TextEffectsNodes ==
    {L(<<Sym("effects"), font>> \o tail) :
        font \in {FontNode1,
                  L(<<Sym("font"), L(<<Sym("face"), Str("\"KiCad Font\"")>>), SizeNode>>),
                  L(<<Sym("font"), L(<<Sym("size"), Sym("2.0"), Sym("1.5")>>),
                      L(<<Sym("thickness"), Sym("0.25")>>), Sym("bold"), Sym("italic")>>),
                  L(<<Sym("font"), L(<<Sym("size"), Sym("1.0")>>)>>),
                  L(<<Sym("font"), SizeNode, L(<<Sym("thickness"), Sym("-0.75")>>)>>),
                  L(<<Sym("font")>>)},
        tail \in SeqsUpTo({L(<<Sym("justify"), Sym("left")>>),
                           L(<<Sym("justify"), Sym("right"), Sym("top")>>),
                           L(<<Sym("justify"), Sym("left"), Sym("bottom"), Sym("mirror")>>),
                           L(<<Sym("justify"), Sym("invalid")>>),
                           Sym("hide")}, MaxTail)}
    \cup {L(<<Sym("effects")>>), L(<<Sym("effects"), Sym("hide")>>),
          L(<<Sym("effects"), L(<<Sym("font"), L(<<Sym("size")>>)>>)>>),
          L(<<Sym("effects"),
              L(<<Sym("font"), SizeNode, L(<<Sym("thickness"), IntAtom(0)>>)>>)>>),
          L(<<Sym("fx"), FontNode1>>)}

\* properties
At2 == [x |-> 0, y |-> -143, angle |-> None]

At3 == [x |-> 0, y |-> -143, angle |-> Some(0)]

PropertyEntities ==
    [key : {"Reference"}, value : {"R1", ""}, at : {None, Some(At2), Some(At3)},
     unlocked : BOOLEAN, layer : {None, Some("F.SilkS")},
     uuid : {None, Some(Uuid1), Some("")},
     effects : {None, Some([font |-> Font1, justify_horizontal |-> None,
                            justify_vertical |-> None, mirror |-> FALSE, hide |-> TRUE]),
                Some([font |-> [Font1 EXCEPT !.thickness = Some(0), !.bold = TRUE],
                      justify_horizontal |-> Some("left"), justify_vertical |-> None,
                      mirror |-> TRUE, hide |-> FALSE])},
     hide : BOOLEAN]

PropertyTail ==
    {L(<<Sym("at"), IntAtom(0), Num(-143)>>),
     L(<<Sym("at"), IntAtom(0), Num(-143), IntAtom(0)>>),
     L(<<Sym("at"), IntAtom(1)>>),
     L(<<Sym("at"), IntAtom(1), IntAtom(2), IntAtom(0), IntAtom(1)>>),
     L(<<Sym("at"), Str("invalid"), Str("position")>>),
     L(<<Sym("layer"), Str("F.SilkS")>>),
     L(<<Sym("layer"), Str("F.Silks")>>),
     L(<<Sym("unlocked"), Sym("yes")>>),
     UuidNode,
     L(<<Sym("effects"), FontNode1, Sym("hide")>>),
     L(<<Sym("tstamp"), Str("x")>>),
     Sym("hide"),
     Str("InvalidLayer")}

PropertyNodes ==
    {L(<<Sym("property"), Str("Reference"), Str("R1")>> \o tail) :
        tail \in SeqsUpTo(PropertyTail, MaxTail)}
    \cup {L(<<Sym("property"), Str("Reference")>>),
          L(<<Sym("property"), Str("Reference"), Str("R1"), L(<<Sym("effects")>>)>>),
          L(<<Sym("property"), Str("Reference"), Str("R1"),
              L(<<Sym("effects"), L(<<Sym("font"), L(<<Sym("size"), Sym("1.0")>>)>>)>>)>>),
          L(<<Sym("property"), Str("Reference"), Str("R1"), L(<<Sym("uuid")>>)>>),
          L(<<Sym("property"), Str("Reference"), Str("R1"),
              L(<<Sym("uuid"), Str("invalid-uuid")>>)>>),
          L(<<Sym("property"), Str("Reference"), Str("R1"), L(<<Sym("uuid"), Str("")>>)>>),
          L(<<Sym("property"), Str("Reference"), Str("R1"), L(<<Sym("layer")>>)>>),
          L(<<Sym("not_a_property"), Str("Reference"), Str("R1")>>),
          L(<<Sym("property"), Str("Value"), IntAtom(1), L(<<>>)>>)}

\* pads
PadEntities ==
    [number : {"1"}, type : {"smd"}, shape : {"roundrect"},
     at : {[x |-> -75, y |-> 0, angle |-> None], [x |-> -75, y |-> 0, angle |-> Some(0)]},
     size : {<<60, 60>>},
     layers : {<<>>, <<"F.Cu">>, <<"F.Cu", "F.Paste", "F.Mask">>},
     roundrect_rratio : {None, Some(25), Some(0)},
     solder_mask_margin : {None, Some(10)},
     thermal_bridge_angle : {None, Some(4500)},
     uuid : {None, Some(Uuid1), Some("")}]

PadAt ==
    {L(<<Sym("at"), Num(-75), IntAtom(0)>>),
     L(<<Sym("at"), Num(-75), IntAtom(0), IntAtom(0)>>),
     L(<<Sym("at"), Str("0.5"), Str("1.5"), Num(9000)>>),
     L(<<Sym("at"), IntAtom(1)>>),
     L(<<Sym("at")>>),
     L(<<Sym("at"), IntAtom(1), IntAtom(2), IntAtom(0), IntAtom(1)>>)}

PadLayers ==
    {L(<<Sym("layers"), Str("F.Cu"), Str("F.Paste"), Str("F.Mask")>>),
     L(<<Sym("layers"), Sym("F.Mask"), Sym("F.Cu")>>),
     L(<<Sym("layers"), Str("F.Cu")>>),
     L(<<Sym("layers"), Str("F.Cu"), Str("*.Mask")>>),
     L(<<Sym("layers"), Str("f.cu")>>),
     L(<<Sym("layers")>>)}

PadTail ==
    {L(<<Sym("roundrect_rratio"), Num(25)>>),
     L(<<Sym("roundrect_rratio"), IntAtom(0)>>),
     L(<<Sym("solder_mask_margin"), Str("0.1")>>),
     L(<<Sym("thermal_bridge_angle"), IntAtom(45)>>),
     UuidNode,
     L(<<Sym("remove_unused_layers"), Sym("no")>>),
     Sym("locked")}

PadNode(at, layers, tail) ==
    L(<<Sym("pad"), Str("1"), Sym("smd"), Sym("roundrect"), at,
        L(<<Sym("size"), Num(60), Num(60)>>), layers>> \o tail)

PadNodes ==
    {PadNode(at, layers, tail) :
        at \in PadAt, layers \in PadLayers, tail \in SeqsUpTo(PadTail, MaxTail)}
    \cup {L(<<Sym("pad"), IntAtom(2), Sym("smd"), Sym("rect"),
              L(<<Sym("at"), Num(-75), IntAtom(0)>>),
              L(<<Sym("size"), Num(60), Num(60)>>)>>),
          L(<<Sym("pad"), IntAtom(2), Sym("thru_hole"), Sym("circle"),
              L(<<Sym("at"), Num(-75), IntAtom(0)>>),
              L(<<Sym("size"), Num(60)>>), L(<<Sym("layers"), Str("F.Cu")>>)>>),
          L(<<Sym("pad"), IntAtom(2), Sym("thru_hole"), Sym("circle"),
              L(<<Sym("at"), Num(-75), IntAtom(0)>>),
              L(<<Sym("size"), Num(60), Num(60)>>),
              L(<<Sym("layers"), Str("F.Cu")>>),
              L(<<Sym("roundrect_rratio")>>), L(<<Sym("uuid")>>)>>),
          L(<<Sym("not_a_pad"), Str("1"), Sym("smd"), Sym("roundrect"),
              L(<<Sym("at"), Num(-75), IntAtom(0)>>),
              L(<<Sym("size"), Num(60), Num(60)>>), L(<<Sym("layers"), Str("F.Cu")>>)>>)}

\* footprints
PropA == L(<<Sym("property"), Str("Reference"), Str("REF**")>>)

PropB == L(<<Sym("property"), Str("Value"), Str("0603"), Sym("hide")>>)

Poly1 == L(<<Sym("fp_poly"), Pts3, Stroke0, Str("solid"), Str("F.Adhes"), UuidNode>>)

Poly2 == L(<<Sym("fp_poly"), Pts3, L(<<Sym("fill"), Sym("none")>>),
             L(<<Sym("layer"), Str("F.Paste")>>)>>)

Line1 ==
    L(<<Sym("fp_line"), L(<<Sym("start"), Num(-148), Num(73)>>),
        L(<<Sym("end"), Num(148), Num(73)>>),
        StrokeNode(Sym("stroke"), Num(5), Sym("solid"), <<>>),
        L(<<Sym("layer"), Str("F.CrtYd")>>)>>)

Pad1 ==
    PadNode(L(<<Sym("at"), Num(-75), IntAtom(0)>>),
            L(<<Sym("layers"), Str("F.Cu"), Str("F.Paste"), Str("F.Mask")>>),
            <<L(<<Sym("roundrect_rratio"), Num(25)>>)>>)

Pad2 ==
    PadNode(L(<<Sym("at"), Num(75), IntAtom(0), IntAtom(0)>>),
            L(<<Sym("layers"), Str("F.Cu")>>), <<UuidNode>>)

Children == {PropA, PropB, Poly1, Poly2, Line1, Pad1, Pad2}

FootprintNode(header, children) == L(<<Sym("footprint")>> \o header \o children)

Header1 ==
    <<Str("0603"), L(<<Sym("version"), IntAtom(20240108)>>),
      L(<<Sym("generator"), Sym("pcbnew")>>),
      L(<<Sym("generator_version"), Str("8.0")>>),
      L(<<Sym("layer"), Str("F.Cu")>>),
      L(<<Sym("descr"), Str("Test footprint")>>)>>

\* the header with field i (1..6 of the node, 0-based) replaced by x
HeaderWith(i, x) == [Header1 EXCEPT ![i] = x]

FootprintNodes ==
    {FootprintNode(Header1, children) : children \in SeqsUpTo(Children, MaxChildren)}
    \cup {FootprintNode(Header1, <<c, PropA>>) :
            c \in {L(<<Sym("attr"), Sym("smd")>>), Sym("locked"), L(<<>>),
                   L(<<Sym("pad"), Str("1")>>),
                   L(<<Sym("fp_line"), Str("x")>>),
                   L(<<Sym("fp_poly"), Pts3, Stroke0, Str("solid"), Str("B.Cu")>>),
                   L(<<Sym("property"), Str("Reference")>>)}}
    \cup {FootprintNode(Header1, <<PropA, L(<<Sym("pad"), Str("1")>>), PropB>>),
          FootprintNode(HeaderWith(5, L(<<Sym("layer"), Str("B.Cu")>>)), <<PropA>>),
          FootprintNode(HeaderWith(5, L(<<Sym("layer"), Str("F.CU")>>)), <<PropA>>),
          FootprintNode(HeaderWith(2, Str("20240108")), <<PropA>>),
          FootprintNode(HeaderWith(1, L(<<Sym("name"), Str("0603")>>)), <<PropA>>),
          FootprintNode(HeaderWith(2, L(<<Sym("version"), L(<<IntAtom(1)>>)>>)), <<PropA>>),
          FootprintNode(Tail(Header1), <<PropA, PropB>>),
          FootprintNode(HeaderWith(3, L(<<Sym("generator")>>)), <<PropA>>),
          FootprintNode(HeaderWith(6, L(<<Sym("description"), Str("x")>>)), <<PropA>>),
          L(<<Sym("footprint"), Str("0603")>>),
          L(<<Sym("module")>> \o Header1)}

PropEntA ==
    [key |-> "Reference", value |-> "REF**", at |-> None, unlocked |-> FALSE,
     layer |-> None, uuid |-> None, effects |-> None, hide |-> FALSE]

PropEntB == [PropEntA EXCEPT !.key = "Value", !.value = "0603", !.hide = TRUE]

PolyEnt1 ==
    [points |-> [points |-> <<[x |-> -20, y |-> 30], [x |-> 20, y |-> 30],
                              [x |-> 20, y |-> -30]>>],
     stroke |-> Some([width |-> 0, type |-> "default", color |-> None]),
     fill |-> "solid", layer |-> "F.Adhes", uuid |-> None]

LineEnt1 ==
    [start |-> [x |-> -148, y |-> 73], end |-> [x |-> 148, y |-> 73],
     stroke |-> [width |-> 5, type |-> "solid", color |-> None],
     layer |-> "F.CrtYd", uuid |-> None]

PadEnt1 ==
    [number |-> "1", type |-> "smd", shape |-> "roundrect",
     at |-> [x |-> -75, y |-> 0, angle |-> None], size |-> <<60, 60>>,
     layers |-> <<"F.Cu", "F.Paste", "F.Mask">>, roundrect_rratio |-> Some(25),
     solder_mask_margin |-> None, thermal_bridge_angle |-> None, uuid |-> None]

FootprintEntities ==
    [name : {"0603"}, version : {"20240108"}, generator : {"pcbnew"},
     generator_version : {"8.0"}, layer : {"F.Cu"}, description : {"Test footprint", ""},
     properties : {<<>>, <<PropEntA, PropEntB>>, <<PropEntB, PropEntA>>},
     polygons : {<<>>, <<PolyEnt1>>, <<[PolyEnt1 EXCEPT !.points = [points |-> <<>>]]>>},
     lines : {<<>>, <<LineEnt1>>},
     pads : {<<>>, <<PadEnt1>>, <<PadEnt1, [PadEnt1 EXCEPT !.number = "2"]>>}]

\* layers
LayerNodes ==
    {Str(l) : l \in Layer} \cup {Sym("F.Cu"), Str("B.Cu"), Str("f.cu"), Str("F.Cu "),
                                 Str(""), Str("FCu"), IntAtom(1)}

LayerListNodes ==
    {L(<<Sym("layer"), Str(l)>>) : l \in Layer}
    \cup {L(<<Sym("layer"), Str("B.Cu")>>), L(<<Sym("layer"), Str("f.cu")>>),
          L(<<Sym("layer"), Sym("F.Cu")>>), L(<<Str("layer"), Str("F.Cu")>>),
          L(<<Sym("layers"), Str("F.Cu")>>), L(<<Sym("layer")>>),
          L(<<Sym("layer"), Str("F.Cu"), Str("F.Mask")>>), Str("F.Cu")}

\* texts
AtTexts ==
    {<<"(", "a", "t", " ", "1", ".", "0", " ", "2", ".", "0", ")">>,
     <<"(", "a", "t", " ", "1", ".", "0", " ", "2", ".", "0", " ", "9", "0", ")">>,
     <<"(", "a", "t", " ", " ", "1", ".", "0", " ", " ", " ", "2", ".", "0", " ", " ", ")">>,
     <<"(", "a", "t", " ", "1", ".", "0", " ", "2", ".", "0", " ", "4", "5", ".", "5", ")">>,
     <<"(", "a", "t", " ", "-", "1", ".", "0", " ", "-", "2", ".", "0", ")">>,
     <<"(", "a", "t", " ", "-", "1", ".", "0", " ", "-", "2", ".", "0", " ", "-", "9", "0", ")">>,
     <<"(", "a", "t", " ", "1", " ", "2", " ", "0", ")">>,
     <<"(", "a", "t", " ", "1", " ", "2", " ", "0", ".", "0", ")">>,
     <<" ", "(", "a", "t", " ", "1", " ", "2", ")", "\n">>,
     <<"(", "a", "t", "\n", "1", "\n", "2", ")">>,
     <<"(", "a", "t", ")">>,
     <<"(", "a", "t", " ", "1", ".", "0", ")">>,
     <<"(", "a", "t", " ", "1", ".", "0", " ", "2", ".", "0", " ", "3", ".", "0", " ", "4", ".", "0", ")">>,
     <<"(", "a", "t", " ", "1", " ", "2", " ", "3", " ", "4", " ", "5", ")">>,
     <<"(", "a", "t", " ", "x", " ", "y", ")">>,
     <<"(", "a", "t", " ", "1", " ", "y", ")">>,
     <<"(", "a", "t", " ", "1", " ", "2", " ", "z", ")">>,
     <<"a", "t", " ", "1", ".", "0", " ", "2", ".", "0">>,
     <<"(", "a", "t", " ", "1", ".", "0", " ", "2", ".", "0">>,
     <<"(", "a", "t", "1", " ", "2", ")">>,
     <<"(", "a", "t", "t", "i", "c", " ", "1", " ", "2", ")">>,
     <<"(", "p", "o", "s", " ", "1", " ", "2", ")">>,
     <<"(", "a", "t", " ", "1", ".", "0", ".", "0", " ", "2", ")">>,
     <<"(", "a", "t", " ", ".", "5", " ", "2", ".", ")">>,
     <<"(", "a", "t", " ", "+", "1", " ", "-", "0", ")">>,
     <<>>}

PositionIdentifierEntities ==
    [x : {0, 100, -100, 25}, y : {0, 200, -75},
     angle : {None, Some(0), Some(9000), Some(-9000), Some(4550)}]

PaperTexts ==
    {<<"(", "p", "a", "p", "e", "r", " ", "A", "4", ")">>,
     <<"(", "p", "a", "p", "e", "r", " ", "A", "4", " ", "p", "o", "r", "t", "r", "a", "i", "t", ")">>,
     <<"(", "p", "a", "p", "e", "r", " ", "A", "0", ")">>,
     <<"(", "p", "a", "p", "e", "r", " ", "A", "0", " ", "p", "o", "r", "t", "r", "a", "i", "t", ")">>,
     <<"(", "p", "a", "p", "e", "r", " ", "2", "9", "7", " ", "2", "1", "0", ")">>,
     <<"(", "p", "a", "p", "e", "r", " ", "2", "9", "7", " ", "2", "1", "0", " ", "p", "o", "r", "t", "r", "a", "i", "t", ")">>,
     <<"(", "p", "a", "p", "e", "r", " ", " ", "A", "4", " ", " ", ")">>,
     <<"(", "p", "a", "p", "e", "r", " ", " ", "A", "4", " ", " ", "p", "o", "r", "t", "r", "a", "i", "t", " ", " ", ")">>,
     <<"(", "p", "a", "p", "e", "r", " ", " ", "2", "9", "7", " ", " ", "2", "1", "0", " ", " ", "p", "o", "r", "t", "r", "a", "i", "t", " ", " ", ")">>,
     <<"(", "p", "a", "p", "e", "r", ")">>,
     <<"(", "p", "a", "p", "e", "r", " ", "i", "n", "v", "a", "l", "i", "d", ")">>,
     <<"(", "p", "a", "p", "e", "r", " ", "2", "9", "7", ")">>,
     <<"(", "p", "a", "p", "e", "r", " ", "2", "9", "7", " ", "2", "1", "0", " ", "3", "0", "0", ")">>,
     <<"(", "p", "a", "p", "e", "r", " ", "-", "2", "9", "7", " ", "2", "1", "0", ")">>,
     <<"(", "p", "a", "p", "e", "r", " ", "2", "9", "7", " ", "-", "2", "1", "0", ")">>,
     <<"p", "a", "p", "e", "r", " ", "A", "4">>,
     <<"(", "p", "a", "p", "e", "r", " ", "a", "4", ")">>,
     <<"(", "p", "a", "p", "e", "r", " ", "A", "4", " ", "l", "a", "n", "d", "s", "c", "a", "p", "e", ")">>,
     <<"(", "p", "a", "p", "e", "r", " ", "A", "6", ")">>,
     <<"(", "p", "a", "p", "e", "r", " ", "A", ")">>,
     <<"(", "p", "a", "p", "e", "r", " ", "E", " ", "p", "o", "r", "t", "r", "a", "i", "t", ")">>,
     <<"(", "p", "a", "p", "e", "r", " ", "U", "S", "L", "e", "t", "t", "e", "r", ")">>,
     <<"(", "p", "a", "p", "e", "r", " ", "A", "4", " ", "p", "o", "r", "t", "r", "a", "i", "t", " ", "p", "o", "r", "t", "r", "a", "i", "t", ")">>,
     <<"(", "p", "a", "p", "e", "r", " ", "0", " ", "2", "1", "0", ")">>,
     <<"(", "p", "a", "p", "e", "r", " ", "2", "9", ".", "7", " ", "2", "1", ".", "0", "5", ")">>,
     <<"(", "p", "a", "p", "e", "r", " ", "1", ".", "2", ".", "3", " ", "4", ")">>,
     <<"(", "p", "a", "p", "e", "r", " ", "2", "9", "7", " ", "2", "1", "0", " ", "l", "a", "n", "d", "s", "c", "a", "p", "e", ")">>,
     <<"(", "p", "a", "p", "e", "r", " ", "A", " ", "4", ")">>,
     <<"(", "p", "a", "p", "e", "r", "A", "4", ")">>,
     <<"(", "p", "a", "p", "e", "r", " ", "p", "o", "r", "t", "r", "a", "i", "t", ")">>,
     <<"(", "p", "a", "p", "e", "r", " ", "2", "9", "7", " ", "A", "4", ")">>}

PageSettingsEntities ==
    [size : {[paper |-> z] : z \in PaperSize}
            \cup {[custom |-> <<29700, 21000>>], [custom |-> <<2970, 2105>>],
                  [custom |-> <<1, 100>>], [fine |-> <<1, 100000>>]},
     portrait : BOOLEAN]

UuidTexts ==
    {<<"(", "u", "u", "i", "d", " ", "1", "2", "3", "e", "4", "5", "6", "7", "-", "e", "8", "9", "b", "-", "1", "2", "d", "3", "-", "a", "4", "5", "6", "-", "4", "2", "6", "6", "1", "4", "1", "7", "4", "0", "0", "0", ")">>,
     <<"(", "u", "u", "i", "d", " ", " ", "1", "2", "3", "e", "4", "5", "6", "7", "-", "e", "8", "9", "b", "-", "1", "2", "d", "3", "-", "a", "4", "5", "6", "-", "4", "2", "6", "6", "1", "4", "1", "7", "4", "0", "0", "0", " ", " ", ")">>,
     <<"(", "u", "u", "i", "d", " ", "0", "0", "0", "0", "0", "0", "0", "0", "-", "0", "0", "0", "0", "-", "0", "0", "0", "0", "-", "0", "0", "0", "0", "-", "0", "0", "0", "0", "0", "0", "0", "0", "0", "0", "0", "0", ")">>,
     <<"(", "u", "u", "i", "d", ")">>,
     <<"(", "u", "u", "i", "d", " ", "1", "2", "3", "e", "4", "5", "6", "7", "-", "e", "8", "9", "b", "-", "1", "2", "d", "3", "-", "a", "4", "5", "6", "-", "4", "2", "6", "6", "1", "4", "1", "7", "4", "0", "0", "0", " ", "e", "x", "t", "r", "a", ")">>,
     <<"(", "u", "u", "i", "d", " ", "i", "n", "v", "a", "l", "i", "d", "-", "u", "u", "i", "d", ")">>,
     <<"u", "u", "i", "d", " ", "1", "2", "3", "e", "4", "5", "6", "7", "-", "e", "8", "9", "b", "-", "1", "2", "d", "3", "-", "a", "4", "5", "6", "-", "4", "2", "6", "6", "1", "4", "1", "7", "4", "0", "0", "0">>,
     <<"(", "u", "u", "i", "d", " ", "1", "2", "3", "e", "4", "5", "6", "7", "-", "e", "8", "9", "b", "-", "1", "2", "d", "3", "-", "a", "4", "5", "6", "-", "4", "2", "6", "6", "1", "4", "1", "7", "4", "0", "0", "0">>,
     <<"(", "u", "u", "i", "d", " ", "{", "1", "2", "3", "e", "4", "5", "6", "7", "-", "e", "8", "9", "b", "-", "1", "2", "d", "3", "-", "a", "4", "5", "6", "-", "4", "2", "6", "6", "1", "4", "1", "7", "4", "0", "0", "0", "}", ")">>,
     <<"(", "u", "u", "i", "d", " ", "1", "2", "3", "e", "4", "5", "6", "7", "e", "8", "9", "b", "1", "2", "d", "3", "a", "4", "5", "6", "4", "2", "6", "6", "1", "4", "1", "7", "4", "0", "0", "0", ")">>,
     <<"(", "u", "u", "i", "d", " ", "1", "2", "3", "e", "4", "5", "6", "7", "-", "e", "8", "9", "b", "-", "1", "2", "d", "3", "-", "a", "4", "5", "6", "-", "4", "2", "6", "6", "1", "4", "1", "7", "4", "0", "0", ")">>,
     <<"(", "u", "u", "i", "d", " ", "1", "2", "3", "e", "4", "5", "6", "7", "-", "e", "8", "9", "b", "-", "1", "2", "d", "3", "-", "a", "4", "5", "6", "-", "4", "2", "6", "6", "1", "4", "1", "7", "4", "0", "0", "g", ")">>,
     <<"(", "u", "u", "i", "d", " ", "1", "2", "3", "E", "4", "5", "6", "7", "-", "E", "8", "9", "B", "-", "1", "2", "D", "3", "-", "A", "4", "5", "6", "-", "4", "2", "6", "6", "1", "4", "1", "7", "4", "0", "0", "0", ")">>,
     <<"(", "u", "u", "i", "d", " ", "\"", "1", "2", "3", "e", "4", "5", "6", "7", "-", "e", "8", "9", "b", "-", "1", "2", "d", "3", "-", "a", "4", "5", "6", "-", "4", "2", "6", "6", "1", "4", "1", "7", "4", "0", "0", "0", "\"", ")">>,
     <<"(", "u", "u", "i", "d", " ", "u", "r", "n", ":", "u", "u", "i", "d", ":", "1", "2", "3", "e", "4", "5", "6", "7", "-", "e", "8", "9", "b", "-", "1", "2", "d", "3", "-", "a", "4", "5", "6", "-", "4", "2", "6", "6", "1", "4", "1", "7", "4", "0", "0", "0", ")">>,
     <<"(", "i", "d", " ", "1", "2", "3", "e", "4", "5", "6", "7", "-", "e", "8", "9", "b", "-", "1", "2", "d", "3", "-", "a", "4", "5", "6", "-", "4", "2", "6", "6", "1", "4", "1", "7", "4", "0", "0", "0", ")">>,
     <<"(", "u", "u", "i", "d", "1", "2", "3", "e", "4", "5", "6", "7", "-", "e", "8", "9", "b", "-", "1", "2", "d", "3", "-", "a", "4", "5", "6", "-", "4", "2", "6", "6", "1", "4", "1", "7", "4", "0", "0", "0", ")">>}

UuidText1 ==
    <<"1", "2", "3", "e", "4", "5", "6", "7", "-", "e", "8", "9", "b", "-", "1", "2", "d", "3", "-", "a", "4", "5", "6", "-", "4", "2", "6", "6", "1", "4", "1", "7", "4", "0", "0", "0">>

UuidText0 ==
    <<"0", "0", "0", "0", "0", "0", "0", "0", "-", "0", "0", "0", "0", "-", "0", "0", "0", "0", "-", "0", "0", "0", "0", "-", "0", "0", "0", "0", "0", "0", "0", "0", "0", "0", "0", "0">>

DataText1 == <<"b", "a", "s", "e", "6", "4", "d", "a", "t", "a">>

UUIDEntities ==
    {[value |-> UuidText1], [value |-> UuidText0], [value |-> <<" ">> \o Tail(UuidText0)]}

\* the components an image text is put together from
ImageAtParts ==
    {<<"(", "a", "t", " ", "1", "0", " ", "2", "0", " ", "0", ")">>,
     <<"(", "a", "t", " ", "1", "0", " ", "2", "0", ")">>,
     <<"(", "a", "t", " ", "1", " ", "2", " ", "3", " ", "4", ")">>,
     <<"(", "a", "t", " ", "1", "0", ")">>,
     <<"(", "a", "t", " ", "x", " ", "y", ")">>,
     <<>>}

ImageScaleParts ==
    {<<>>,
     <<"(", "s", "c", "a", "l", "e", " ", "2", ".", "5", ")">>,
     <<"(", "s", "c", "a", "l", "e", " ", "a", "b", "c", ")">>,
     <<"(", "s", "c", "a", "l", "e", " ", "0", ")">>,
     <<"(", "s", "c", "a", "l", "e", " ", "n", "a", "n", ")">>,
     <<"(", "s", "c", "a", "l", "e", " ", "-", "2", ".", "5", ")">>}

ImageLayerParts ==
    {<<>>,
     <<"(", "l", "a", "y", "e", "r", " ", "\"", "F", ".", "S", "i", "l", "k", "S", "\"", ")">>,
     <<"(", "l", "a", "y", "e", "r", " ", "\"", "I", "n", "v", "a", "l", "i", "d", "L", "a", "y", "e", "r", "\"", ")">>,
     <<"(", "l", "a", "y", "e", "r", " ", "\"", "\"", ")">>,
     <<"(", "l", "a", "y", "e", "r", " ", "B", ".", "C", "u", ")">>,
     <<"(", "l", "a", "y", "e", "r", " ", "\"", "f", ".", "s", "i", "l", "k", "s", "\"", ")">>}

ImageUuidParts ==
    {<<"(", "u", "u", "i", "d", " ", "\"", "1", "2", "3", "e", "4", "5", "6", "7", "-", "e", "8", "9", "b", "-", "1", "2", "d", "3", "-", "a", "4", "5", "6", "-", "4", "2", "6", "6", "1", "4", "1", "7", "4", "0", "0", "0", "\"", ")">>,
     <<"(", "u", "u", "i", "d", " ", "\"", "i", "n", "v", "a", "l", "i", "d", "-", "u", "u", "i", "d", "\"", ")">>,
     <<>>}

ImageDataParts ==
    {<<"(", "d", "a", "t", "a", " ", "\"", "b", "a", "s", "e", "6", "4", "d", "a", "t", "a", "\"", ")">>,
     <<"(", "d", "a", "t", "a", " ", "\"", "\"", ")">>,
     <<>>}

ImageTexts ==
    {<<"(">> \o Join(SelectSeq(<<Tail(T_image), at, scale, layer, uuid, data>>,
                                LAMBDA part : part # <<>>)) \o <<")">> :
        at \in ImageAtParts, scale \in ImageScaleParts, layer \in ImageLayerParts,
        uuid \in ImageUuidParts, data \in ImageDataParts}
    \cup {<<"(", "n", "o", "t", "_", "a", "n", "_">> \o Tail(T_image) \o <<" ">>
          \o Join(<<T_at \o <<" ", "1", " ", "2", ")">>,
                    T_uuid \o <<" ", "\"">> \o UuidText1 \o <<"\"", ")">>,
                    T_data \o <<" ", "\"">> \o DataText1 \o <<"\"", ")">>>>)
          \o <<")">>}

ImageEntities ==
    [at : {[x |-> 1000, y |-> 2000, angle |-> a] : a \in {None, Some(0)}},
     scale : {None, Some(250)}, layer : {None, Some("F.SilkS")},
     uuid : {[value |-> UuidText1]}, data : {DataText1, <<>>}]

\* ----------------------------------------------------------- state machine
\* trace is the history of the calls made on the engine, each with its
\* argument and its outcome; stdout is what the calls have printed.  The first
\* call takes an input of the pools above; a later call takes what the call
\* before it returned (an encoder the entity a decoder returned, a decoder the
\* node or text an encoder returned).

Init == trace = <<>> /\ stdout = <<>> /\ pass = [pc |-> "idle"]

Last == trace[Len(trace)]

\* the arguments a call may take: of the pool, or the value the producer
\* returned in the call before
Fed(pool, producer) ==
    IF trace = <<>> THEN pool
    ELSE IF Last.call = producer /\ Last.ret.ok THEN {Last.ret.val}
    ELSE {}

Call(name, arg, ret, out) ==
    /\ Len(trace) < MaxCalls
    /\ trace' = Append(trace, [call |-> name, arg |-> arg, ret |-> ret])
    /\ stdout' = stdout \o out
    /\ UNCHANGED pass

DecodeLayer ==
    \E data \in Fed(LayerNodes, "") :
        Call("Layer.from_sexp", data, Layer_from_sexp(data), <<>>)

DecodeLayerList ==
    \E data \in Fed(LayerListNodes, "Layer.to_sexp") :
        Call("Layer.from_sexp_list", data, Layer_from_sexp_list(data), <<>>)

EncodeLayerList ==
    \E self \in Fed(Layer, "Layer.from_sexp_list") :
        Call("Layer.to_sexp", self, Ok(Layer_to_sexp(self)), <<>>)

DecodeTextEffects ==
    \E data \in Fed(TextEffectsNodes, "TextEffects.to_sexp") :
        Call("TextEffects.from_sexp", data, TextEffects_from_sexp(data), <<>>)

EncodeTextEffects ==
    \E self \in Fed(TextEffectsEntities, "TextEffects.from_sexp") :
        Call("TextEffects.to_sexp", self, Ok(TextEffects_to_sexp(self)), <<>>)

DecodePositionIdentifier ==
    \E data \in Fed(AtTexts, "PositionIdentifier.to_sexpr") :
        Call("PositionIdentifier.from_sexpr", data, PositionIdentifier_from_sexpr(data), <<>>)

EncodePositionIdentifier ==
    \E self \in Fed(PositionIdentifierEntities, "PositionIdentifier.from_sexpr") :
        Call("PositionIdentifier.to_sexpr", self, Ok(PositionIdentifier_to_sexpr(self)), <<>>)

DecodeProperty ==
    \E data \in Fed(PropertyNodes, "Property.to_sexp") :
        Call("Property.from_sexp", data, Property_from_sexp(data), <<>>)

EncodeProperty ==
    \E self \in Fed(PropertyEntities, "Property.from_sexp") :
        Call("Property.to_sexp", self, Ok(Property_to_sexp(self)), <<>>)

DecodeStroke ==
    \E data \in Fed(StrokeNodes, "Stroke.to_sexp") :
        Call("Stroke.from_sexp", data, Stroke_from_sexp(data), <<data>>)

EncodeStroke ==
    \E self \in Fed(StrokeEntities, "Stroke.from_sexp") :
        Call("Stroke.to_sexp", self, Ok(Stroke_to_sexp(self)), <<>>)

DecodePoints ==
    \E data \in Fed(PointsNodes, "Points.to_sexp") :
        Call("Points.from_sexp", data, Points_from_sexp(data), <<>>)

EncodePoints ==
    \E self \in Fed(PointsEntities, "Points.from_sexp") :
        Call("Points.to_sexp", self, Ok(Points_to_sexp(self)), <<>>)

DecodePolygon ==
    \E data \in Fed(PolygonNodes, "Polygon.to_sexp") :
        Call("Polygon.from_sexp", data, Polygon_from_sexp(data), Polygon_prints(data))

EncodePolygon ==
    \E self \in Fed(PolygonEntities, "Polygon.from_sexp") :
        Call("Polygon.to_sexp", self, Ok(Polygon_to_sexp(self)), <<>>)

DecodeLine ==
    \E data \in Fed(LineNodes, "Line.to_sexp") :
        Call("Line.from_sexp", data, Line_from_sexp(data), Line_prints(data))

EncodeLine ==
    \E self \in Fed(LineEntities, "Line.from_sexp") :
        Call("Line.to_sexp", self, Ok(Line_to_sexp(self)), <<>>)

DecodePad ==
    \E data \in Fed(PadNodes, "Pad.to_sexp") :
        Call("Pad.from_sexp", data, Pad_from_sexp(data), <<>>)

EncodePad ==
    \E self \in Fed(PadEntities, "Pad.from_sexp") :
        Call("Pad.to_sexp", self, Ok(Pad_to_sexp(self)), <<>>)

DecodePageSettings ==
    \E data \in Fed(PaperTexts, "PageSettings.to_sexpr") :
        Call("PageSettings.from_sexpr", data, PageSettings_from_sexpr(data), <<>>)

EncodePageSettings ==
    \E self \in Fed(PageSettingsEntities, "PageSettings.from_sexpr") :
        Call("PageSettings.to_sexpr", self, Ok(PageSettings_to_sexpr(self)), <<>>)

DecodeUUID ==
    \E data \in Fed(UuidTexts, "UUID.to_sexpr") :
        Call("UUID.from_sexpr", data, UUID_from_sexpr(data), <<>>)

EncodeUUID ==
    \E self \in Fed(UUIDEntities, "UUID.from_sexpr") :
        Call("UUID.to_sexpr", self, Ok(UUID_to_sexpr(self)), <<>>)

DecodeImage ==
    \E data \in Fed(ImageTexts, "Image.to_sexpr") :
        Call("Image.from_sexpr", data, Image_from_sexpr(data), <<>>)

EncodeImage ==
    \E self \in Fed(ImageEntities, "Image.from_sexpr") :
        Call("Image.to_sexpr", self, Ok(Image_to_sexpr(self)), <<>>)

DecodeFootprintModel ==
    \E data \in Fed(FootprintNodes, "FootprintModel.to_sexp") :
        Call("FootprintModel.from_sexp", data, FootprintModel_from_sexp(data), FootprintModel_prints(data))

EncodeFootprintModel ==
    \E self \in Fed(FootprintEntities, "FootprintModel.from_sexp") :
        Call("FootprintModel.to_sexp", self, Ok(FootprintModel_to_sexp(self)), <<>>)

\* pad.size = (w, h): the models are declared without frozen or
\* validate_assignment, so an assignment replaces the field of the pad, as
\* my_parse does on the pad it has decoded; ret is the pad after it
AssignPadSize ==
    \E self \in Fed(PadEntities, "Pad.from_sexp"), size \in {<<170, 150>>, <<60, 60>>} :
        Call("Pad.size", self, Ok([self EXCEPT !.size = size]), <<>>)

\* footprint.polygons.append(polygon): the child collections are plain lists,
\* as create_0603_footprint fills them; ret is the footprint after it
AppendPolygon ==
    \E self \in Fed(FootprintEntities, "FootprintModel.from_sexp") :
        Call("FootprintModel.polygons.append", self,
             Ok([self EXCEPT !.polygons = Append(@, PolyEnt1)]), <<>>)

Next ==
    \/ AssignPadSize
    \/ AppendPolygon
    \/ DecodeLayer
    \/ DecodeLayerList
    \/ EncodeLayerList
    \/ DecodeTextEffects
    \/ EncodeTextEffects
    \/ DecodePositionIdentifier
    \/ EncodePositionIdentifier
    \/ DecodeProperty
    \/ EncodeProperty
    \/ DecodeStroke
    \/ EncodeStroke
    \/ DecodePoints
    \/ EncodePoints
    \/ DecodePolygon
    \/ EncodePolygon
    \/ DecodeLine
    \/ EncodeLine
    \/ DecodePad
    \/ EncodePad
    \/ DecodePageSettings
    \/ EncodePageSettings
    \/ DecodeUUID
    \/ EncodeUUID
    \/ DecodeImage
    \/ EncodeImage
    \/ DecodeFootprintModel
    \/ EncodeFootprintModel

Spec == Init /\ [][Next]_vars

\* ------------------------------------- FootprintModel.from_sexp, step by step
\* pass is the frame of one call of FootprintModel.from_sexp: pc its place
\* (idle before the call, loop in the for statement over data[7:], done once it
\* has returned or raised), data its argument, pos the place in data of the
\* child the loop takes next, visited the places it has taken, acc the
\* footprint read so far or the exception raised.

\* the frame after the header fields are read
Entered(data) ==
    [pc |-> IF FootprintHeader(data).ok THEN "loop" ELSE "done",
     data |-> data, pos |-> 8, visited |-> <<>>, acc |-> FootprintHeader(data)]

\* a faulty loop body, which drops a child that does not decode and goes on
Visit_Continuing(p) ==
    [p EXCEPT !.pos = @ + 1,
              !.visited = Append(@, p.pos),
              !.acc = IF ParseChild(p.acc.val, p.data.list[p.pos]).ok
                      THEN ParseChild(p.acc.val, p.data.list[p.pos]) ELSE p.acc]

\* the body of the for statement on the child at p.pos: an exception leaves
\* the loop and the call
Visit(p) ==
    [p EXCEPT !.pos = @ + 1,
              !.visited = Append(@, p.pos),
              !.acc = ParseChild(p.acc.val, p.data.list[p.pos]),
              !.pc = IF ParseChild(p.acc.val, p.data.list[p.pos]).ok
                     THEN "loop" ELSE "done"]

\* the nodes the pass is followed on: every sequence of children of four kinds
\* and of a pad that does not decode, and two nodes whose header is refused
PassChildren == {PropA, Poly1, Line1, Pad1, L(<<Sym("pad"), Str("1")>>)}

PassNodes ==
    {FootprintNode(Header1, children) : children \in SeqsUpTo(PassChildren, MaxChildren)}
    \cup {FootprintNode(HeaderWith(5, L(<<Sym("layer"), Str("B.Cu")>>)), <<PropA>>),
          L(<<Sym("footprint"), Str("0603")>>)}

\* the call is entered and the six header fields are read
PassBegin ==
    /\ pass.pc = "idle"
    /\ \E data \in PassNodes : pass' = Entered(data)
    /\ UNCHANGED <<trace, stdout>>

\* one turn of the loop over the children
PassChild ==
    /\ pass.pc = "loop"
    /\ pass.pos <= Len(pass.data.list)
    /\ pass' = Visit(pass)
    /\ stdout' = stdout \o ChildPrints(pass.data.list[pass.pos])
    /\ UNCHANGED trace

\* the loop is exhausted and the footprint is returned
PassReturn ==
    /\ pass.pc = "loop"
    /\ pass.pos > Len(pass.data.list)
    /\ pass' = [pass EXCEPT !.pc = "done"]
    /\ UNCHANGED <<trace, stdout>>

NextPass == PassBegin \/ PassChild \/ PassReturn

\* the call runs on its own thread of control and nothing in it blocks
SpecPass == Init /\ [][NextPass]_vars /\ WF_vars(NextPass)

\* ------------------------------------------------------------------ claims

\* the call before the last one
Prev == trace[Len(trace) - 1]

\* the last call was name
Called(name) == trace # <<>> /\ Last.call = name

\* the last call was second, on what the call first before it returned
Then(first, second) == Len(trace) >= 2 /\ Prev.call = first /\ Last.call = second

\* the tag of a node: the text of its first element, "" for an atom or ()
TagOf(x) == IF IsList(x) /\ x.list # <<>> THEN StrOf(x.list[1]) ELSE ""

\* the encoder and the decoder of each entity type of the footprint family
FootprintFamily ==
    {<<"Property.to_sexp", "Property.from_sexp">>,
     <<"Points.to_sexp", "Points.from_sexp">>,
     <<"Polygon.to_sexp", "Polygon.from_sexp">>,
     <<"Line.to_sexp", "Line.from_sexp">>,
     <<"Pad.to_sexp", "Pad.from_sexp">>,
     <<"FootprintModel.to_sexp", "FootprintModel.from_sexp">>,
     <<"Image.to_sexpr", "Image.from_sexpr">>}

\* C1: for every entity of the footprint family, decoding its encoding
\* succeeds and returns an entity equal to it field by field.
C1_RoundTrip ==
    \A p \in FootprintFamily :
        Then(p[1], p[2]) => Last.ret.ok /\ Last.ret.val = Prev.arg

\* the children of a footprint node, and those of them that carry a tag
ChildrenOf(data) == From(data.list, 7)

Tagged(children, tag) == SelectSeq(children, LAMBDA c : TagOf(c) = tag)

\* a footprint node with a sound header whose children are property, fp_poly,
\* fp_line and pad nodes, each one sound
Interleaving(data) ==
    /\ FootprintHeader(data).ok
    /\ \A i \in 1..Len(ChildrenOf(data)) :
          LET c == ChildrenOf(data)[i]
          IN  \/ TagOf(c) = "property" /\ Property_from_sexp(c).ok
              \/ TagOf(c) = "fp_poly" /\ Polygon_from_sexp(c).ok
              \/ TagOf(c) = "fp_line" /\ Line_from_sexp(c).ok
              \/ TagOf(c) = "pad" /\ Pad_from_sexp(c).ok

\* the elements i + 1 .. i + n of the list q
Slice(q, i, n) == SubSeq(q, i + 1, i + n)

\* C2: FootprintModel.from_sexp places each child of an interleaving in the
\* collection of its tag, in input order; FootprintModel.to_sexp emits after
\* the seven leading elements all properties, then all polygons, then all
\* lines, then all pads, each group in its order in the entity.
C2_Grouping ==
    /\ Called("FootprintModel.from_sexp") /\ Interleaving(Last.arg) =>
          LET children == ChildrenOf(Last.arg)
              props == Tagged(children, "property")
              polys == Tagged(children, "fp_poly")
              lines == Tagged(children, "fp_line")
              pads == Tagged(children, "pad")
          IN  /\ Last.ret.ok
              /\ Last.ret.val.properties
                    = [i \in 1..Len(props) |-> Property_from_sexp(props[i]).val]
              /\ Last.ret.val.polygons
                    = [i \in 1..Len(polys) |-> Polygon_from_sexp(polys[i]).val]
              /\ Last.ret.val.lines = [i \in 1..Len(lines) |-> Line_from_sexp(lines[i]).val]
              /\ Last.ret.val.pads = [i \in 1..Len(pads) |-> Pad_from_sexp(pads[i]).val]
    /\ Called("FootprintModel.to_sexp") =>
          LET self == Last.arg
              out == Last.ret.val.list
              np == Len(self.properties)
              ng == Len(self.polygons)
              nl == Len(self.lines)
              nd == Len(self.pads)
          IN  /\ Len(out) = 7 + np + ng + nl + nd
              /\ Slice(out, 7, np) = [i \in 1..np |-> Property_to_sexp(self.properties[i])]
              /\ Slice(out, 7 + np, ng) = [i \in 1..ng |-> Polygon_to_sexp(self.polygons[i])]
              /\ Slice(out, 7 + np + ng, nl) = [i \in 1..nl |-> Line_to_sexp(self.lines[i])]
              /\ Slice(out, 7 + np + ng + nl, nd)
                    = [i \in 1..nd |-> Pad_to_sexp(self.pads[i])]

\* a footprint with a pad between two properties has been decoded and encoded
\* again
C2_Witness ==
    /\ Then("FootprintModel.from_sexp", "FootprintModel.to_sexp")
    /\ Interleaving(Prev.arg)
    /\ ChildrenOf(Prev.arg) = <<PropA, Pad1, PropB>>
    /\ Slice(Last.ret.val.list, 7, 3) = <<PropA, PropB, Pad_to_sexp(Pad_from_sexp(Pad1).val)>>

\* the polygon node (fp_poly (pts) solid "F.Adhes")
EmptyPolygon == L(<<Sym("fp_poly"), Pts0, Str("solid"), Str("F.Adhes")>>)

\* C3: Polygon.from_sexp succeeds on the polygon node with an empty point
\* list, and returns a polygon with zero points, fill solid, layer F.Adhes.
C3_EmptyPolygon ==
    Called("Polygon.from_sexp") /\ Last.arg = EmptyPolygon =>
        /\ Last.ret.ok
        /\ Last.ret.val.points.points = <<>>
        /\ Last.ret.val.fill = "solid"
        /\ Last.ret.val.layer = "F.Adhes"

\* a number atom or a string that reads as a number
Numeric(x) == ~IsList(x) /\ FloatOf(x).ok

\* the value of a numeric atom, in hundredths
ValueOf(x) == FloatOf(x).val

\* an (at x y) or (at x y angle) node
WellFormedAt(x) ==
    /\ IsList(x) /\ Len(x.list) \in {3, 4} /\ x.list[1] = Sym("at")
    /\ \A i \in 2..Len(x.list) : Numeric(x.list[i])

\* an item of the tail of a pad node: an attribute with its value, or anything
\* that carries none of the four tags
WellFormedPadItem(x) ==
    IF TagOf(x) \in {"roundrect_rratio", "solder_mask_margin", "thermal_bridge_angle"}
    THEN Len(x.list) = 2 /\ Numeric(x.list[2])
    ELSE IF TagOf(x) = "uuid" THEN Len(x.list) = 2 /\ IsStr(x.list[2])
    ELSE TRUE

\* (pad number type shape (at x y [angle]) (size w h) (layers L1..Ln) tail...)
WellFormedPad(data) ==
    /\ IsList(data) /\ Len(data.list) >= 7 /\ data.list[1] = Sym("pad")
    /\ \A i \in 2..4 : ~IsList(data.list[i])
    /\ WellFormedAt(data.list[5])
    /\ IsListOfLen(data.list[6], 3) /\ data.list[6].list[1] = Sym("size")
    /\ Numeric(data.list[6].list[2]) /\ Numeric(data.list[6].list[3])
    /\ IsList(data.list[7]) /\ Len(data.list[7].list) >= 2
    /\ data.list[7].list[1] = Sym("layers")
    /\ \A i \in 2..Len(data.list[7].list) : TagOf(L(<<data.list[7].list[i]>>)) \in Layer
    /\ \A i \in 8..Len(data.list) : WellFormedPadItem(data.list[i])

\* the tag occurs in the tail of the pad node
InTail(data, tag) == \E i \in 8..Len(data.list) : TagOf(data.list[i]) = tag

\* C4: Pad.from_sexp on a well-formed node returns a pad with the number,
\* type, shape, position and size of the node, its layers in the same order
\* and number, and each of roundrect_rratio, solder_mask_margin,
\* thermal_bridge_angle and uuid set exactly when its tag occurs in the tail.
C4_PadFields ==
    Called("Pad.from_sexp") /\ WellFormedPad(Last.arg) =>
        LET d == Last.arg.list
            pad == Last.ret.val
        IN  /\ Last.ret.ok
            /\ pad.number = StrOf(d[2]) /\ pad.type = StrOf(d[3]) /\ pad.shape = StrOf(d[4])
            /\ pad.at.x = ValueOf(d[5].list[2]) /\ pad.at.y = ValueOf(d[5].list[3])
            /\ pad.at.angle = IF Len(d[5].list) = 4 THEN Some(ValueOf(d[5].list[4])) ELSE None
            /\ pad.size = <<ValueOf(d[6].list[2]), ValueOf(d[6].list[3])>>
            /\ pad.layers = [i \in 1..Len(d[7].list) - 1 |-> StrOf(d[7].list[i + 1])]
            /\ \A tag \in {"roundrect_rratio", "solder_mask_margin",
                           "thermal_bridge_angle", "uuid"} :
                  pad[tag] # None <=> InTail(Last.arg, tag)

\* the pad of the scenario has been decoded: three layers, a roundrect ratio
\* and no solder-mask margin
C4_Witness ==
    /\ Called("Pad.from_sexp") /\ WellFormedPad(Last.arg) /\ Last.arg = Pad1
    /\ Last.ret.val.layers = <<"F.Cu", "F.Paste", "F.Mask">>
    /\ Last.ret.val.roundrect_rratio = Some(25)
    /\ Last.ret.val.solder_mask_margin = None

\* a stroke node of the model with a width that reads as a number, a valid
\* type and n elements
WellFormedStroke(data, n) ==
    /\ IsListOfLen(data, n) /\ TagOf(data) = "stroke"
    /\ IsListOfLen(data.list[2], 2) /\ TagOf(data.list[2]) = "width"
    /\ Numeric(data.list[2].list[2])
    /\ IsListOfLen(data.list[3], 2) /\ TagOf(data.list[3]) = "type"
    /\ TagOf(L(<<data.list[3].list[2]>>)) \in StrokeType
    /\ n = 4 => /\ IsListOfLen(data.list[4], 5) /\ TagOf(data.list[4]) = "color"
                /\ \A i \in 2..5 : IntOf(data.list[4].list[i]).ok

\* C5: for a stroke node (stroke (width w) (type t)) with t a valid stroke
\* type, Stroke.to_sexp(Stroke.from_sexp(node)) is the stroke tag, (width w)
\* and (type t) and nothing else, and the entity has no color; for a node with
\* a fourth (color r g b a) element the output has a fourth color element with
\* the same four integer values (the encoder writes each as its decimal string).
C5_StrokeShape ==
    /\ Called("Stroke.from_sexp") /\ WellFormedStroke(Last.arg, 3) =>
          Last.ret.ok /\ Last.ret.val.color = None
    /\ Called("Stroke.from_sexp") /\ WellFormedStroke(Last.arg, 4) => Last.ret.ok
    /\ \A n \in {3, 4} :
          Then("Stroke.from_sexp", "Stroke.to_sexp") /\ WellFormedStroke(Prev.arg, n) =>
              LET in == Prev.arg.list
                  out == Last.ret.val.list
              IN  /\ Len(out) = n
                  /\ out[1] = Sym("stroke")
                  /\ out[2] = L(<<Sym("width"), Num(ValueOf(in[2].list[2]))>>)
                  /\ out[3] = L(<<Sym("type"), Sym(StrOf(in[3].list[2]))>>)
                  /\ n = 4 => /\ IsListOfLen(out[4], 5) /\ out[4].list[1] = Sym("color")
                              /\ \A i \in 2..5 :
                                    IntOf(out[4].list[i]) = IntOf(in[4].list[i])

\* a stroke node without color has been decoded and encoded again
C5_Witness ==
    /\ Then("Stroke.from_sexp", "Stroke.to_sexp") /\ WellFormedStroke(Prev.arg, 3)
    /\ Len(Last.ret.val.list) = 3
    /\ Last.ret.val.list[3] = L(<<Sym("type"), Sym("default")>>)

\* numerals as they are written in a text, with their values in hundredths
Numerals ==
    {<<<<"0">>, 0>>, <<<<"1">>, 100>>, <<<<"2">>, 200>>, <<<<"1", ".", "0">>, 100>>,
     <<<<"2", ".", "0">>, 200>>, <<<<"9", "0">>, 9000>>, <<<<"0", ".", "0">>, 0>>,
     <<<<"4", "5", ".", "5">>, 4550>>, <<<<"-", "1", ".", "0">>, -100>>,
     <<<<"-", "2", ".", "0">>, -200>>, <<<<"-", "9", "0">>, -9000>>}

\* the text (at w1 w2 w3) of up to three words
AtText(words) ==
    <<"(", "a", "t">>
    \o (IF Len(words) >= 1 THEN <<" ">> \o words[1] ELSE <<>>)
    \o (IF Len(words) >= 2 THEN <<" ">> \o words[2] ELSE <<>>)
    \o (IF Len(words) >= 3 THEN <<" ">> \o words[3] ELSE <<>>)
    \o <<")">>

\* the number of blanks of a text
Blanks(cs) == Cardinality({i \in 1..Len(cs) : cs[i] = " "})

Contains(cs, sub) ==
    \E i \in 1..Len(cs) - Len(sub) + 1 : SubSeq(cs, i, i + Len(sub) - 1) = sub

\* at texts with fewer than 2 or more than 3 numbers after the tag
BadArityAtTexts ==
    {AtText(<<>>), AtText(<<<<"1", ".", "0">>>>), AtText(<<<<"1", "0">>>>),
     <<"(", "a", "t", " ", "1", ".", "0", " ", "2", ".", "0", " ", "3", ".", "0", " ", "4", ".", "0", ")">>,
     <<"(", "a", "t", " ", "1", " ", "2", " ", "3", " ", "4", ")">>,
     <<"(", "a", "t", " ", "1", " ", "2", " ", "3", " ", "4", " ", "5", ")">>}

\* an at node with fewer than 2 or more than 3 elements after the tag
BadArityAtNode(x) == TagOf(x) = "at" /\ Len(x.list) - 1 \notin {2, 3}

\* the call raised the error of a rejected input
Rejected == ~Last.ret.ok /\ Last.ret.exc = "ValueError"

\* C7: every decoder of an at node rejects, with a decode error, a node with
\* fewer than 2 or more than 3 numbers after the tag: PositionIdentifier
\* .from_sexpr, and the at field of Pad.from_sexp, Property.from_sexp and
\* Image.from_sexpr.
C7_AtArity ==
    /\ Called("PositionIdentifier.from_sexpr") /\ Last.arg \in BadArityAtTexts => Rejected
    /\ Called("Image.from_sexpr") /\ (\E t \in BadArityAtTexts : Contains(Last.arg, t))
          => Rejected
    /\ Called("Pad.from_sexp") /\ IsList(Last.arg) /\ Len(Last.arg.list) >= 5
       /\ BadArityAtNode(Last.arg.list[5]) => Rejected
    /\ Called("Property.from_sexp") /\ IsList(Last.arg)
       /\ (\E i \in 4..Len(Last.arg.list) : BadArityAtNode(Last.arg.list[i])) => Rejected

\* no element of q is a node with one of the tags
NoTag(q, tags) == \A i \in 1..Len(q) : TagOf(q[i]) \notin tags

\* C8: encoding an entity whose optional fields are all unset emits no element
\* for any of them: a property with only key and value encodes to exactly
\* [property, key, value]; a pad without ratio, margin, bridge angle and uuid,
\* a polygon without stroke and uuid, a line without uuid, a stroke without
\* color and a font without face, thickness and line spacing carry their
\* required elements only.
C8_Omission ==
    /\ Called("Property.to_sexp")
       /\ Last.arg.at = None /\ Last.arg.layer = None /\ Last.arg.effects = None
       /\ Last.arg.uuid = None /\ ~Last.arg.unlocked /\ ~Last.arg.hide =>
          Last.ret.val
              = L(<<Sym("property"), Str(Last.arg.key), Str(Last.arg.value)>>)
    /\ Called("Pad.to_sexp")
       /\ Last.arg.roundrect_rratio = None /\ Last.arg.solder_mask_margin = None
       /\ Last.arg.thermal_bridge_angle = None /\ Last.arg.uuid = None =>
          /\ Len(Last.ret.val.list) = 7
          /\ NoTag(Last.ret.val.list, {"roundrect_rratio", "solder_mask_margin",
                                       "thermal_bridge_angle", "uuid"})
    /\ Called("Polygon.to_sexp") /\ Last.arg.stroke = None /\ Last.arg.uuid = None =>
          Len(Last.ret.val.list) = 4 /\ NoTag(Last.ret.val.list, {"stroke", "uuid"})
    /\ Called("Line.to_sexp") /\ Last.arg.uuid = None =>
          Len(Last.ret.val.list) = 5 /\ NoTag(Last.ret.val.list, {"uuid"})
    /\ Called("Stroke.to_sexp") /\ Last.arg.color = None =>
          Len(Last.ret.val.list) = 3 /\ NoTag(Last.ret.val.list, {"color"})
    /\ Called("TextEffects.to_sexp")
       /\ Last.arg.font.face = None /\ Last.arg.font.thickness = None
       /\ Last.arg.font.line_spacing = None =>
          LET font == Last.ret.val.list[2].list
          IN  /\ NoTag(font, {"face", "thickness", "line_spacing"})
              /\ ~Last.arg.font.bold /\ ~Last.arg.font.italic =>
                    font = <<Sym("font"), L(<<Sym("size"), Num(Last.arg.font.height),
                                              Num(Last.arg.font.width)>>)>>

\* a property with only key and value has been encoded
C8_Witness ==
    /\ Called("Property.to_sexp")
    /\ Last.arg.at = None /\ Last.arg.layer = None /\ Last.arg.effects = None
    /\ Last.arg.uuid = None /\ ~Last.arg.unlocked /\ ~Last.arg.hide
    /\ Last.ret.val = L(<<Sym("property"), Str("Reference"), Str("R1")>>)

\* the flag is the bare atom of its tag in q exactly when it is set, and never
\* a node with a value
BareFlag(q, tag, value) ==
    /\ NoTag(q, {tag})
    /\ value <=> \E i \in 1..Len(q) : q[i] = Sym(tag)

\* the flag is the node (tag yes) in q exactly when it is set, and never a
\* bare atom or another node of the tag
YesFlag(q, tag, value) ==
    /\ \A i \in 1..Len(q) : q[i] # Sym(tag)
    /\ \A i \in 1..Len(q) : TagOf(q[i]) = tag => q[i] = L(<<Sym(tag), Sym("yes")>>)
    /\ value <=> \E i \in 1..Len(q) : q[i] = L(<<Sym(tag), Sym("yes")>>)

\* the elements of the justify node of an effects node, if it has one
JustifyOf(q) ==
    LET js == SelectSeq(q, LAMBDA x : TagOf(x) = "justify")
    IN  IF js = <<>> THEN <<>> ELSE js[1].list

\* the flags of text effects and of their font
EffectsFlags ==
    Called("TextEffects.to_sexp") =>
        /\ BareFlag(Last.ret.val.list, "hide", Last.arg.hide)
        /\ BareFlag(JustifyOf(Last.ret.val.list), "mirror", Last.arg.mirror)
        /\ BareFlag(Last.ret.val.list[2].list, "bold", Last.arg.font.bold)
        /\ BareFlag(Last.ret.val.list[2].list, "italic", Last.arg.font.italic)

\* C9: Property.hide, TextEffects.hide, TextEffects.mirror, Font.bold and
\* Font.italic are encoded as the bare atom of their tag when true, and
\* Property.unlocked as the node (unlocked yes); each is omitted when false.
C9_Flags ==
    /\ EffectsFlags
    /\ Called("Property.to_sexp") =>
          /\ BareFlag(Last.ret.val.list, "hide", Last.arg.hide)
          /\ YesFlag(Last.ret.val.list, "unlocked", Last.arg.unlocked)

\* C9 as stated: every boolean flag, Property.unlocked included, is encoded as
\* a bare tag atom with no value when true and omitted when false.
C9_BareFlags ==
    /\ EffectsFlags
    /\ Called("Property.to_sexp") =>
          /\ BareFlag(Last.ret.val.list, "hide", Last.arg.hide)
          /\ BareFlag(Last.ret.val.list, "unlocked", Last.arg.unlocked)

\* a property with both flags set has been encoded
C9_Witness ==
    /\ Called("Property.to_sexp") /\ Last.arg.unlocked /\ Last.arg.hide
    /\ Last.ret.val.list[Len(Last.ret.val.list)] = Sym("hide")
    /\ \E i \in 1..Len(Last.ret.val.list) :
          Last.ret.val.list[i] = L(<<Sym("unlocked"), Sym("yes")>>)

\* the token of a layer element, bare or as (layer token)
LayerToken(x) == IF IsList(x) THEN StrOf(x.list[2]) ELSE StrOf(x)

\* an element that carries a layer token outside the vocabulary
BadLayer(x) ==
    /\ IsList(x) => IsListOfLen(x, 2) /\ TagOf(x) = "layer" /\ ~IsList(x.list[2])
    /\ LayerToken(x) \notin Layer

\* layer components of an image text with a token outside the vocabulary
BadImageLayers ==
    {<<"(", "l", "a", "y", "e", "r", " ", "\"", "I", "n", "v", "a", "l", "i", "d", "L", "a", "y", "e", "r", "\"", ")">>,
     <<"(", "l", "a", "y", "e", "r", " ", "\"", "f", ".", "s", "i", "l", "k", "s", "\"", ")">>,
     <<"(", "l", "a", "y", "e", "r", " ", "\"", "\"", ")">>,
     <<"(", "l", "a", "y", "e", "r", " ", "B", ".", "C", "u", ")">>}

\* page settings texts with a size outside the vocabulary
BadPaperTexts ==
    {<<"(", "p", "a", "p", "e", "r", " ", "a", "4", ")">>,
     <<"(", "p", "a", "p", "e", "r", " ", "A", "6", ")">>,
     <<"(", "p", "a", "p", "e", "r", " ", "U", "S", "L", "e", "t", "t", "e", "r", ")">>}

\* the layer tokens of the nodes
C10_NodeLayers ==
    /\ Called("Layer.from_sexp") /\ ~IsList(Last.arg) /\ BadLayer(Last.arg)
          => ~Last.ret.ok
    /\ Called("Layer.from_sexp_list") /\ IsList(Last.arg) /\ BadLayer(Last.arg)
          => ~Last.ret.ok
    /\ Called("Property.from_sexp") /\ IsList(Last.arg)
       /\ (\E i \in 4..Len(Last.arg.list) :
              IsList(Last.arg.list[i]) /\ BadLayer(Last.arg.list[i])) => ~Last.ret.ok
    /\ Called("Polygon.from_sexp") /\ IsList(Last.arg)
       /\ (\E i \in {4, 5} :
              /\ Len(Last.arg.list) >= i
              /\ i = (IF TagOf(Last.arg.list[3]) = "stroke" THEN 5 ELSE 4)
              /\ BadLayer(Last.arg.list[i])) => ~Last.ret.ok
    /\ Called("Line.from_sexp") /\ IsList(Last.arg) /\ Len(Last.arg.list) >= 5
       /\ BadLayer(Last.arg.list[5]) => ~Last.ret.ok
    /\ Called("Pad.from_sexp") /\ IsList(Last.arg) /\ Len(Last.arg.list) >= 7
       /\ TagOf(Last.arg.list[7]) = "layers"
       /\ (\E i \in 2..Len(Last.arg.list[7].list) :
              StrOf(Last.arg.list[7].list[i]) \notin Layer) => ~Last.ret.ok
    /\ Called("FootprintModel.from_sexp") /\ IsList(Last.arg) /\ Len(Last.arg.list) >= 6
       /\ IsList(Last.arg.list[6]) /\ BadLayer(Last.arg.list[6]) => ~Last.ret.ok

\* C10: decoding fails for every Layer, StrokeType or PaperSize token that is
\* not exactly one of the strings of the vocabulary, wherever it occurs:
\* Layer.from_sexp and from_sexp_list, the layer of a property, a polygon, a
\* line, a pad, a footprint and an image, the type of a stroke and the size of
\* page settings.
C10_Closure ==
    /\ C10_NodeLayers
    /\ Called("Image.from_sexpr") /\ (\E t \in BadImageLayers : Contains(Last.arg, t))
          => ~Last.ret.ok
    /\ Called("Stroke.from_sexp") /\ IsList(Last.arg) /\ Len(Last.arg.list) >= 3
       /\ IsListOfLen(Last.arg.list[3], 2) /\ TagOf(Last.arg.list[3]) = "type"
       /\ StrOf(Last.arg.list[3].list[2]) \notin StrokeType => ~Last.ret.ok
    /\ Called("PageSettings.from_sexpr") /\ Last.arg \in BadPaperTexts => ~Last.ret.ok

\* a (tag value) header field with an atom for its value
HeaderField(x, tag) == IsListOfLen(x, 2) /\ x.list[1] = Sym(tag) /\ ~IsList(x.list[2])

\* a footprint node with its six header fields present and well formed
WellFormedHeader(data) ==
    /\ IsList(data) /\ Len(data.list) >= 7 /\ data.list[1] = Sym("footprint")
    /\ ~IsList(data.list[2])
    /\ HeaderField(data.list[3], "version")
    /\ HeaderField(data.list[4], "generator")
    /\ HeaderField(data.list[5], "generator_version")
    /\ HeaderField(data.list[6], "layer") /\ StrOf(data.list[6].list[2]) \in Layer
    /\ HeaderField(data.list[7], "descr")

\* a child whose tag is one of the four the decoder knows
Recognized(x) == TagOf(x) \in {"property", "fp_poly", "fp_line", "pad"}

\* the footprint node without its unrecognized children
Recognizable(data) ==
    L(SubSeq(data.list, 1, 7) \o SelectSeq(From(data.list, 7), Recognized))

\* C11: FootprintModel.from_sexp fails whenever one of the six header fields
\* (name, version, generator, generator_version, layer, descr) is missing or
\* malformed, and otherwise skips every child whose tag is not property,
\* fp_poly, fp_line or pad: the outcome is that of the node without them.
C11_HeaderAndSkips ==
    Called("FootprintModel.from_sexp") =>
        IF WellFormedHeader(Last.arg)
        THEN Last.ret = FootprintModel_from_sexp(Recognizable(Last.arg))
        ELSE ~Last.ret.ok

\* the part of C11 about the children alone
C11_Skips ==
    Called("FootprintModel.from_sexp") /\ WellFormedHeader(Last.arg) =>
        Last.ret = FootprintModel_from_sexp(Recognizable(Last.arg))

\* the decoding of a recognized child of a footprint, on its own, fails
ChildFails(c) ==
    \/ TagOf(c) = "property" /\ ~Property_from_sexp(c).ok
    \/ TagOf(c) = "fp_poly" /\ ~Polygon_from_sexp(c).ok
    \/ TagOf(c) = "fp_line" /\ ~Line_from_sexp(c).ok
    \/ TagOf(c) = "pad" /\ ~Pad_from_sexp(c).ok

\* an optional node of one of the tags that carries no value
NoValue(x, tags) == TagOf(x) \in tags /\ Len(x.list) < 2

\* the nested decoders: a failure of a child of a footprint, of the points or
\* the stroke of a polygon, of the stroke of a line, of the effects of a
\* property or of the font of text effects fails the enclosing decode
C12_Nested ==
    /\ Called("FootprintModel.from_sexp") /\ WellFormedHeader(Last.arg)
       /\ (\E i \in 8..Len(Last.arg.list) : ChildFails(Last.arg.list[i])) => ~Last.ret.ok
    /\ Called("Polygon.from_sexp") /\ IsList(Last.arg) /\ Len(Last.arg.list) >= 2
       /\ ~Points_from_sexp(Last.arg.list[2]).ok => ~Last.ret.ok
    /\ Called("Polygon.from_sexp") /\ IsList(Last.arg) /\ Len(Last.arg.list) >= 3
       /\ TagOf(Last.arg.list[3]) = "stroke" /\ ~Stroke_from_sexp(Last.arg.list[3]).ok
          => ~Last.ret.ok
    /\ Called("Line.from_sexp") /\ IsList(Last.arg) /\ Len(Last.arg.list) >= 4
       /\ TagOf(Last.arg.list[4]) = "stroke" /\ ~Stroke_from_sexp(Last.arg.list[4]).ok
          => ~Last.ret.ok
    /\ Called("Property.from_sexp") /\ IsList(Last.arg)
       /\ (\E i \in 4..Len(Last.arg.list) :
              /\ TagOf(Last.arg.list[i]) = "effects"
              /\ ~TextEffects_from_sexp(Last.arg.list[i]).ok) => ~Last.ret.ok
    /\ Called("TextEffects.from_sexp") /\ IsList(Last.arg)
       /\ Cardinality({i \in 2..Len(Last.arg.list) : TagOf(Last.arg.list[i]) = "font"}) = 1
       /\ (\E i \in 2..Len(Last.arg.list) :
              /\ TagOf(Last.arg.list[i]) = "font"
              /\ \/ Len(Last.arg.list[i].list) < 2
                 \/ ~_parse_font(Last.arg.list[i]).ok) => ~Last.ret.ok

\* C12: if the decoding of a nested node fails (a child of a footprint, the
\* points or stroke of a polygon, the stroke of a line, the effects or font of
\* a property) or an optional node of the tail of an entity is malformed (one
\* of its tags without a value), the enclosing decode fails and returns no
\* entity with the part dropped or defaulted.
C12_Propagation ==
    /\ C12_Nested
    /\ Called("Pad.from_sexp") /\ IsList(Last.arg)
       /\ (\E i \in 8..Len(Last.arg.list) :
              NoValue(Last.arg.list[i], {"roundrect_rratio", "solder_mask_margin",
                                         "thermal_bridge_angle", "uuid"}))
          => ~Last.ret.ok
    /\ Called("Property.from_sexp") /\ IsList(Last.arg)
       /\ (\E i \in 4..Len(Last.arg.list) :
              NoValue(Last.arg.list[i], {"at", "layer", "uuid", "unlocked"}))
          => ~Last.ret.ok

\* the node decoders with the tag each expects
NodeDecoders ==
    {<<"Property.from_sexp", "property">>, <<"Polygon.from_sexp", "fp_poly">>,
     <<"Line.from_sexp", "fp_line">>, <<"Pad.from_sexp", "pad">>,
     <<"Stroke.from_sexp", "stroke">>, <<"Points.from_sexp", "pts">>,
     <<"TextEffects.from_sexp", "effects">>, <<"FootprintModel.from_sexp", "footprint">>,
     <<"Layer.from_sexp_list", "layer">>}

\* the text decoders with the tag each expects
TextDecoders ==
    {<<"PositionIdentifier.from_sexpr", <<"a", "t">>>>,
     <<"PageSettings.from_sexpr", <<"p", "a", "p", "e", "r">>>>,
     <<"UUID.from_sexpr", <<"u", "u", "i", "d">>>>,
     <<"Image.from_sexpr", <<"i", "m", "a", "g", "e">>>>}

\* the leading tag of a text: the characters between its opening parenthesis
\* and the first blank or parenthesis after it; empty if it does not open
\* with a parenthesis
TextTag(cs) ==
    LET s == Strip(cs)
        stop == Min({i \in 2..Len(s) : s[i] \in WS \cup {"(", ")"}} \cup {Len(s) + 1})
    IN  IF s = <<>> \/ s[1] # "(" THEN <<>> ELSE SubSeq(s, 2, stop - 1)

\* the tag check of the node decoders
C13_NodeTags ==
    \A d \in NodeDecoders :
        Called(d[1]) /\ TagOf(Last.arg) # d[2] => Rejected

\* C13: every decoder rejects with a decode error a node whose leading tag is
\* not exactly the tag of its entity, whatever follows the tag: property,
\* fp_poly, fp_line, pad, stroke, pts, effects, footprint and layer for the
\* node decoders, at, paper, uuid and image for the text decoders.
C13_TagCheck ==
    /\ C13_NodeTags
    /\ \A d \in TextDecoders :
          Called(d[1]) /\ TextTag(Last.arg) # d[2] => Rejected

\* the 1-based position of the fill of a polygon node: after the stroke if
\* the node has one
FillIndex(data) ==
    LET x == data.list[3]
    IN  IF IsList(x) /\ x.list # <<>> /\ x.list[1] = Sym("stroke") THEN 4 ELSE 3

\* the fill v of a fill element, bare or (fill v)
FillToken(x) ==
    IF IsListOfLen(x, 2) /\ x.list[1] = Sym("fill") THEN StrOf(x.list[2]) ELSE StrOf(x)

\* the fill element in the other of its two forms
OtherForm(x) ==
    IF IsListOfLen(x, 2) /\ x.list[1] = Sym("fill") THEN x.list[2]
    ELSE L(<<Sym("fill"), x>>)

\* a polygon node with points, an optional stroke, a fill and a layer, whose
\* points and stroke decode
PolygonWithFill(data) ==
    /\ IsList(data) /\ Len(data.list) >= 4 /\ data.list[1] = Sym("fp_poly")
    /\ Points_from_sexp(data.list[2]).ok
    /\ data.list[3] # L(<<>>)
    /\ FillIndex(data) = 4 => Stroke_from_sexp(data.list[3]).ok
    /\ Len(data.list) >= FillIndex(data) + 1
    /\ LET f == data.list[FillIndex(data)]
       IN  ~IsList(f) \/ (IsListOfLen(f, 2) /\ f.list[1] = Sym("fill") /\ ~IsList(f.list[2]))

C15_PositionalForm ==
    Called("Polygon.to_sexp") /\ Last.arg.stroke # None /\ TruthyStr(Last.arg.uuid) =>
        LET out == Last.ret.val.list
        IN  /\ Len(out) = 6
            /\ out[1] = Sym("fp_poly")
            /\ out[2] = Points_to_sexp(Last.arg.points)
            /\ out[3] = Stroke_to_sexp(Last.arg.stroke[1])
            /\ ~IsList(out[4]) /\ StrOf(out[4]) = Last.arg.fill
            /\ ~IsList(out[5]) /\ StrOf(out[5]) = Last.arg.layer
            /\ out[6] = L(<<Sym("uuid"), Str(Last.arg.uuid[1])>>)

\* C16: for every TextEffects value e the constructor accepts (any font face,
\* height, width, thickness including 0, bold, italic, line spacing, any
\* justification, mirror, hide), TextEffects.from_sexp(e.to_sexp()) succeeds
\* and equals e.
C16_EffectsRoundTrip ==
    Then("TextEffects.to_sexp", "TextEffects.from_sexp") => Last.ret = Ok(Prev.arg)

\* the round trip of the text effects whose optional font fields are unset
\* or truthy
C16_TruthyRoundTrip ==
    Then("TextEffects.to_sexp", "TextEffects.from_sexp")
    /\ (\A f \in {"thickness", "line_spacing"} :
           Prev.arg.font[f] = None \/ TruthyFloat(Prev.arg.font[f]))
    /\ (Prev.arg.font.face = None \/ TruthyStr(Prev.arg.font.face))
        => Last.ret = Ok(Prev.arg)

\* C17: for every PageSettings value p (a standard size or a custom pair of
\* strictly positive dimensions, portrait or not),
\* PageSettings.from_sexpr(p.to_sexpr()) returns p, and the text of p holds
\* the word portrait exactly when p.portrait is true.
C17_PageRoundTrip ==
    (Then("PageSettings.to_sexpr", "PageSettings.from_sexpr") => Last.ret = Ok(Prev.arg))
    /\ (Called("PageSettings.to_sexpr")
            => (Last.arg.portrait <=> Contains(Last.ret.val, T_portrait)))

\* the round trip of the page settings whose dimensions are whole hundredths
C17_HundredthsRoundTrip ==
    Then("PageSettings.to_sexpr", "PageSettings.from_sexpr")
    /\ "fine" \notin DOMAIN Prev.arg.size
        => Last.ret = Ok(Prev.arg)

\* the text (uuid X): the tag, blanks, one component X, the closing parenthesis
UuidForm(cs) ==
    LET s == Normalise(cs)
    IN  /\ StartsWith(s, T_uuid \o <<" ">>)
        /\ EndsWith(s, <<")">>)
        /\ Len(Split(Inner(s, 6))) = 1

\* the component X of a text (uuid X)
UuidComponent(cs) == Split(Inner(Normalise(cs), 6))[1]

\* the texts UUID.from_sexpr accepts are those of the form (uuid X) with X a
\* valid UUID, and the value decoded is X
C18_Decoding ==
    Called("UUID.from_sexpr") =>
        IF UuidForm(Last.arg) /\ validate_uuid(UuidComponent(Last.arg)).ok
        THEN Last.ret = Ok([value |-> UuidComponent(Last.arg)])
        ELSE Rejected

\* decoding the text of a UUID gives the UUID back
C18_UuidRoundTrip ==
    Then("UUID.to_sexpr", "UUID.from_sexpr") => Last.ret = Ok(Prev.arg)

\* C18: UUID.from_sexpr returns a UUID exactly for a text (uuid X) with a
\* single component X that is a validly formatted UUID, the value being X;
\* every other text (no component, several, a malformed X, a missing
\* parenthesis or tag) is rejected with a decode error; and
\* UUID.from_sexpr(u.to_sexpr()) returns u.
C18_UuidExact == C18_Decoding /\ C18_UuidRoundTrip

\* a property node with key and value
PropertyShaped(data) ==
    IsList(data) /\ Len(data.list) >= 3 /\ data.list[1] = Sym("property")

\* a bare element of a property's tail that is not the atom hide
StrayAtom(x) == ~IsList(x) /\ StrOf(x) # "hide"

\* a tagged element of a property's tail whose tag the decoder does not know
UnknownTagged(x) ==
    /\ IsList(x)
    /\ x.list # <<>>
    /\ StrOf(x.list[1]) \notin {"at", "layer", "effects", "uuid", "unlocked"}

\* the index of the first stray atom of a property node
FirstStray(data) == Min({i \in 4..Len(data.list) : StrayAtom(data.list[i])})

\* the property node without its elements of unknown tag
KnownOnly(data) ==
    L(SubSeq(data.list, 1, 3)
      \o SelectSeq(From(data.list, 3), LAMBDA x : ~UnknownTagged(x)))

\* C19: Property.from_sexp fails on a node that has, after key and value, a
\* bare element other than the atom hide: with a decode error 'Invalid
\* optional field format' once the elements before it are decoded; and a
\* list element whose tag is none of at, layer, effects, uuid, unlocked is
\* ignored: the result is that of the node without it.
C19_StrictAndLenient ==
    Called("Property.from_sexp") /\ PropertyShaped(Last.arg) =>
        /\ (\E i \in 4..Len(Last.arg.list) : StrayAtom(Last.arg.list[i])) =>
              /\ ~Last.ret.ok
              /\ Property_from_sexp(L(SubSeq(Last.arg.list, 1, FirstStray(Last.arg) - 1))).ok
                     => Last.ret = ValueError("Invalid optional field format")
        /\ Last.ret = Property_from_sexp(KnownOnly(Last.arg))

\* a property node whose tail holds an element of unknown tag and then a stray
\* atom is rejected for the atom
C19_Witness ==
    /\ Called("Property.from_sexp")
    /\ PropertyShaped(Last.arg)
    /\ Len(Last.arg.list) = 5
    /\ UnknownTagged(Last.arg.list[4])
    /\ StrayAtom(Last.arg.list[5])
    /\ Last.ret = ValueError("Invalid optional field format")

\* a property node with an element of unknown tag is decoded
C19_Ignored ==
    /\ Called("Property.from_sexp")
    /\ PropertyShaped(Last.arg)
    /\ \E i \in 4..Len(Last.arg.list) : UnknownTagged(Last.arg.list[i])
    /\ Last.ret.ok
    /\ Last.ret.val.hide

\* an effects node
EffectsShaped(data) ==
    IsList(data) /\ Len(data.list) >= 2 /\ data.list[1] = Sym("effects")

\* the sub-nodes of the list q (after its tag) whose tag is tag
SubNodes(q, tag) ==
    SelectSeq(From(q, 1), LAMBDA x : IsList(x) /\ x.list # <<>> /\ StrOf(x.list[1]) = tag)

\* the font sub-node the decoder reads: the last one
FontOf(data) == SubNodes(data.list, "font")[Len(SubNodes(data.list, "font"))]

\* no font sub-node, or a font sub-node without settings
NoFontSettings(data) ==
    \/ SubNodes(data.list, "font") = <<>>
    \/ \E i \in 1..Len(SubNodes(data.list, "font")) :
           Len(SubNodes(data.list, "font")[i].list) < 2

\* the font sub-node has a size sub-node of fewer than n elements, tag included
ShortSize(data, n) ==
    /\ ~NoFontSettings(data)
    /\ \E i \in 1..Len(SubNodes(FontOf(data).list, "size")) :
           Len(SubNodes(FontOf(data).list, "size")[i].list) < n

JustifyTokens == {"left", "right", "top", "bottom", "mirror"}

\* the effects node without the justify tokens the decoder does not know
KnownJustify(data) ==
    L([i \in 1..Len(data.list) |->
          IF IsList(data.list[i]) /\ data.list[i].list # <<>>
             /\ StrOf(data.list[i].list[1]) = "justify"
          THEN L(<<data.list[i].list[1]>>
                 \o SelectSeq(From(data.list[i].list, 1),
                              LAMBDA j : StrOf(j) \in JustifyTokens))
          ELSE data.list[i]])

\* an effects node without font settings is rejected, and so is one whose
\* size sub-node has one number
C20_Missing ==
    Called("TextEffects.from_sexp") /\ EffectsShaped(Last.arg)
    /\ (NoFontSettings(Last.arg) \/ (ShortSize(Last.arg, 3) /\ ~ShortSize(Last.arg, 2)))
        => Last.ret = ValueError("Missing font settings")

\* unknown justify tokens change nothing
C20_Justify ==
    Called("TextEffects.from_sexp") /\ EffectsShaped(Last.arg)
        => Last.ret = TextEffects_from_sexp(KnownJustify(Last.arg))

\* C20: TextEffects.from_sexp fails with 'Missing font settings' whenever the
\* effects node has no font sub-node, its font sub-node has no settings, or
\* the size sub-node of the font carries fewer than two numbers; an unknown
\* justify token is ignored, the result being that of the node without it.
C20_MissingFont ==
    /\ C20_Justify
    /\ Called("TextEffects.from_sexp") /\ EffectsShaped(Last.arg)
       /\ (NoFontSettings(Last.arg) \/ ShortSize(Last.arg, 3))
           => Last.ret = ValueError("Missing font settings")

\* an image text has a component of the given tag
HasPart(cs, tag) == Contains(cs, tag \o <<" ">>) \/ Contains(cs, tag \o <<")">>)

\* the layer component of an image text names a layer of the vocabulary,
\* quoted as the encoder writes it or bare
NamesLayer(cs) ==
    \E l \in Layer :
        \/ Contains(cs, T_layer \o <<" ", "\"">> \o LayerText[l] \o <<"\"", ")">>)
        \/ Contains(cs, T_layer \o <<" ">> \o LayerText[l] \o <<")">>)

\* an image text without its at, uuid or data component is rejected, and what
\* is decoded has the optional fields only of the components present
C21_Required ==
    Called("Image.from_sexpr") =>
        /\ (\E tag \in {T_at, T_uuid, T_data} : ~HasPart(Last.arg, tag)) => Rejected
        /\ Last.ret.ok =>
              /\ Last.ret.val.scale # None => HasPart(Last.arg, T_scale)
              /\ Last.ret.val.layer # None => HasPart(Last.arg, T_layer)

\* C21: Image.from_sexpr raises a decode error whenever the at, uuid or data
\* component is missing or the layer component names no layer of the
\* vocabulary, and the image it returns otherwise has its scale and its layer
\* set exactly when the scale and layer components are present.
C21_ImageDecoding ==
    /\ C21_Required
    /\ Called("Image.from_sexpr") =>
          /\ HasPart(Last.arg, T_layer) /\ ~NamesLayer(Last.arg) => Rejected
          /\ Last.ret.ok =>
                /\ HasPart(Last.arg, T_scale) => Last.ret.val.scale # None
                /\ HasPart(Last.arg, T_layer) => Last.ret.val.layer # None

\* a float is strictly positive
Positive(v) == v # NaN /\ v > 0

\* the fonts of an entity
FontsOf(call, e) ==
    IF call = "TextEffects" THEN {e.font}
    ELSE IF call = "Property" THEN {e.effects[i].font : i \in DOMAIN e.effects}
    ELSE IF call = "FootprintModel"
    THEN {e.properties[k].effects[1].font :
             k \in {h \in DOMAIN e.properties : e.properties[h].effects # None}}
    ELSE {}

\* the size invariants of an entity of the given class
SizeInvariant(class, e) ==
    /\ \A f \in FontsOf(class, e) :
          /\ f.height >= 0 /\ f.width >= 0
          /\ \A o \in {f.thickness, f.line_spacing} : o = None \/ o[1] >= 0
    /\ class = "Image" => e.scale = None \/ Positive(e.scale[1])
    /\ class = "PageSettings" /\ "paper" \notin DOMAIN e.size =>
          Positive(Dimensions(e.size)[1]) /\ Positive(Dimensions(e.size)[2])

\* the class of the method of a call: the text before the point
ClassOf(call) ==
    CHOOSE c \in {"TextEffects", "Property", "FootprintModel", "Image", "PageSettings",
                  "Other"} :
        \/ c # "Other" /\ \E m \in {"from_sexp", "from_sexpr", "to_sexp", "to_sexpr"} :
                              call = c \o "." \o m
        \/ c = "Other" /\ \A d \in {"TextEffects", "Property", "FootprintModel", "Image",
                                    "PageSettings"} :
                              \A m \in {"from_sexp", "from_sexpr", "to_sexp", "to_sexpr"} :
                                  call # d \o "." \o m

\* the entity of a call: what a decoder returned, or what an encoder was given
IsDecode(call) == \E c \in {"from_sexp", "from_sexpr"} : call = ClassOf(call) \o "." \o c

\* the fonts and the page sizes that exist keep their invariants
C22_FontsAndPages ==
    \A i \in 1..Len(trace) :
        LET c == trace[i] IN
        /\ ClassOf(c.call) \in {"TextEffects", "Property", "FootprintModel", "PageSettings"}
           /\ IsDecode(c.call) /\ c.ret.ok
               => SizeInvariant(ClassOf(c.call), c.ret.val)
        /\ ClassOf(c.call) \in {"TextEffects", "Property", "FootprintModel", "PageSettings"}
           /\ ~IsDecode(c.call)
               => SizeInvariant(ClassOf(c.call), c.arg)

\* C22: every entity that exists, given to an encoder or returned by a
\* decoder, keeps the size invariants: font height, width, thickness and
\* line_spacing are not negative, the scale of an image is strictly positive
\* when present, and a custom page size has both dimensions strictly positive.
C22_SizeInvariants ==
    \A i \in 1..Len(trace) :
        /\ ClassOf(trace[i].call) # "Other" /\ IsDecode(trace[i].call) /\ trace[i].ret.ok
               => SizeInvariant(ClassOf(trace[i].call), trace[i].ret.val)
        /\ ClassOf(trace[i].call) # "Other" /\ ~IsDecode(trace[i].call)
               => SizeInvariant(ClassOf(trace[i].call), trace[i].arg)

\* C23: decode and encode are pure: no call performs I/O, so no call changes
\* what has been written to standard output.
C23_NoOutput == [][stdout' = stdout]_vars

\* the calls other than the decoders that reach Stroke.from_sexp print nothing
C23_OnlyStroke ==
    [][stdout' # stdout =>
          trace'[Len(trace')].call \in {"Stroke.from_sexp", "Polygon.from_sexp",
                                        "Line.from_sexp", "FootprintModel.from_sexp"}]_vars

\* C24: entities are immutable once constructed: no operation changes a field
\* of an entity that has been built or decoded, or adds to one of its child
\* collections.
C24_Immutable ==
    (Called("Pad.size") \/ Called("FootprintModel.polygons.append"))
        => Last.ret = Ok(Last.arg)

\* the decoder of the given name, applied to a node
DecodeBy(name, data) ==
    IF name = "Property.from_sexp" THEN Property_from_sexp(data)
    ELSE IF name = "Pad.from_sexp" THEN Pad_from_sexp(data)
    ELSE IF name = "Polygon.from_sexp" THEN Polygon_from_sexp(data)
    ELSE IF name = "Line.from_sexp" THEN Line_from_sexp(data)
    ELSE IF name = "TextEffects.from_sexp" THEN TextEffects_from_sexp(data)
    ELSE IF name = "Stroke.from_sexp" THEN Stroke_from_sexp(data)
    ELSE IF name = "Points.from_sexp" THEN Points_from_sexp(data)
    ELSE FootprintModel_from_sexp(data)

\* the indices of the elements of a node that are complete nodes of tag tag
Occurrences(data, tag) ==
    {i \in 2..Len(data.list) :
        IsList(data.list[i]) /\ Len(data.list[i].list) >= 2 /\ TagOf(data.list[i]) = tag}

\* the node without its occurrences of tag before the last one
KeepLast(data, tag) ==
    L(SelectSeq([i \in 1..Len(data.list) |-> [at |-> i, node |-> data.list[i]]],
                LAMBDA e : e.at \notin Occurrences(data, tag)
                           \/ e.at = Max(Occurrences(data, tag))))

\* the elements of KeepLast
LastOnly(data, tag) ==
    L([i \in 1..Len(KeepLast(data, tag).list) |-> KeepLast(data, tag).list[i].node])

\* the optional tags of the decoders that scan their tail
LoopTags ==
    {<<"Property.from_sexp", t>> : t \in {"at", "layer", "uuid", "unlocked", "effects"}}
    \cup {<<"Pad.from_sexp", t>> :
             t \in {"roundrect_rratio", "solder_mask_margin", "thermal_bridge_angle", "uuid"}}
    \cup {<<"TextEffects.from_sexp", "font">>}

\* the optional tags of the decoders that look at fixed places, and justify
PlaceTags ==
    {<<"Polygon.from_sexp", "uuid">>, <<"Line.from_sexp", "uuid">>,
     <<"TextEffects.from_sexp", "justify">>}

\* a decoded node with several occurrences of tag d[2] gives the entity of the
\* node with the last occurrence alone
LastWins(d) ==
    Called(d[1]) /\ IsList(Last.arg) /\ Cardinality(Occurrences(Last.arg, d[2])) >= 2
    /\ Last.ret.ok
        => Last.ret = DecodeBy(d[1], LastOnly(Last.arg, d[2]))

\* last-wins holds for the tags of the scanning decoders
C25_Scanned == \A d \in LoopTags : LastWins(d)

\* C25: when the same optional tag occurs more than once in the node of a
\* Property, Pad, Polygon, Line or TextEffects and the node is decoded, the
\* field takes the value of the last occurrence and nothing of an earlier one:
\* the entity is that of the node with the last occurrence alone.
C25_LastWins == \A d \in LoopTags \cup PlaceTags : LastWins(d)

\* the 1-based position of the first optional element of the node of a decoder
TailStart(name, data) ==
    IF name = "Property.from_sexp" THEN 4
    ELSE IF name = "Pad.from_sexp" THEN 8
    ELSE IF name = "Line.from_sexp" THEN 6
    ELSE FillIndex(data) + 2

\* the node with its elements i and j exchanged
Swapped(data, i, j) == L([data.list EXCEPT ![i] = data.list[j], ![j] = data.list[i]])

\* a decoded node gives the same entity with two elements of its optional tail
\* of different tags exchanged
OrderFree(name) ==
    Called(name) /\ Last.ret.ok =>
        \A i, j \in TailStart(name, Last.arg)..Len(Last.arg.list) :
            TagOf(Last.arg.list[i]) # TagOf(Last.arg.list[j])
                => DecodeBy(name, Swapped(Last.arg, i, j)) = Last.ret

\* the optional tail of the decoders that scan it is read in any order
C26_Scanned == OrderFree("Property.from_sexp") /\ OrderFree("Pad.from_sexp")

\* C26: an optional field is recognized wherever it stands among the elements
\* after the required ones: a node of a Property, Pad, Line or Polygon that is
\* decoded gives the same entity when two elements of its optional tail are
\* exchanged, an unrecognized element among them included.
C26_OrderFree ==
    C26_Scanned /\ OrderFree("Line.from_sexp") /\ OrderFree("Polygon.from_sexp")

\* the identifiers of the nodes of the model that are validly formatted UUIDs
ValidUuids == {Uuid1, Uuid2}

\* the images that are decoded carry a valid identifier
C27_ImageUuid ==
    Called("Image.from_sexpr") /\ Last.ret.ok => validate_uuid(Last.ret.val.uuid.value).ok

\* C27: no decoded entity carries a malformed identifier: the uuid of a
\* decoded Property, Polygon, Line or Pad, when set, and the uuid of a decoded
\* Image are validly formatted UUIDs.
C27_ValidUuid ==
    /\ C27_ImageUuid
    /\ \A name \in {"Property.from_sexp", "Polygon.from_sexp", "Line.from_sexp",
                    "Pad.from_sexp"} :
           Called(name) /\ Last.ret.ok
               => Last.ret.val.uuid = None \/ Last.ret.val.uuid[1] \in ValidUuids

\* C28: every decode failure is the decoder's ValueError: a decoder returns an
\* entity or raises ValueError, and no other kind of exception.
C28_OnlyValueError ==
    \A i \in 1..Len(trace) : ~trace[i].ret.ok => trace[i].ret.exc = "ValueError"

\* the decoders of texts fail with ValueError only
C28_TextDecoders ==
    \A i \in 1..Len(trace) :
        trace[i].call \in {"PositionIdentifier.from_sexpr", "PageSettings.from_sexpr",
                           "UUID.from_sexpr", "Image.from_sexpr"}
        /\ ~trace[i].ret.ok
            => trace[i].ret.exc = "ValueError"

\* the children of the node of a frame, by their places
PlacesOf(p) == 8..Len(p.data.list)

\* the child at place k of the node of frame p decodes
Decodes(p, k) ==
    LET name == [property |-> "Property.from_sexp", fp_poly |-> "Polygon.from_sexp",
                    fp_line |-> "Line.from_sexp", pad |-> "Pad.from_sexp"]
    IN  Recognized(p.data.list[k])
            => DecodeBy(name[TagOf(p.data.list[k])], p.data.list[k]).ok

\* the children are taken once each, in the order of the node
C29_InOrder ==
    pass.pc # "idle" =>
        /\ pass.visited = [i \in 1..Len(pass.visited) |-> 7 + i]
        /\ pass.pos = 8 + Len(pass.visited)

\* what the call ends with: the footprint once every child is consumed, or the
\* failure of the first child that does not decode, none after it being taken
C29_Ending ==
    pass.pc = "done" /\ FootprintHeader(pass.data).ok =>
        /\ pass.acc = FootprintModel_from_sexp(pass.data)
        /\ \A i \in 1..Len(pass.visited) - 1 : Decodes(pass, pass.visited[i])
        /\ IF pass.acc.ok
           THEN /\ Len(pass.visited) = Len(pass.data.list) - 7
                /\ \A k \in PlacesOf(pass) : Decodes(pass, k)
           ELSE /\ pass.visited # <<>>
                /\ ~Decodes(pass, pass.visited[Len(pass.visited)])

\* C29: FootprintModel.from_sexp is a single linear pass: after the header it
\* takes each child once, in input order, and never one again; on every node
\* it terminates, returning the footprint once all the children are consumed or
\* failing at the first child that does not decode, no later child being taken.
C29_LinearPass == [](C29_InOrder /\ C29_Ending) /\ <>(pass.pc = "done")

\* the loop has failed at a child with children left after it
C29_Witness ==
    /\ pass.pc = "done"
    /\ ~pass.acc.ok
    /\ Len(pass.visited) >= 2
    /\ pass.pos <= Len(pass.data.list)

\* the classes whose nodes are decoded and encoded
NodeClasses ==
    {"Property", "Stroke", "Points", "Polygon", "Line", "Pad", "TextEffects",
     "FootprintModel"}

\* the encoder of a class, applied to an entity
EncodeBy(class, self) ==
    IF class = "Property" THEN Property_to_sexp(self)
    ELSE IF class = "Stroke" THEN Stroke_to_sexp(self)
    ELSE IF class = "Points" THEN Points_to_sexp(self)
    ELSE IF class = "Polygon" THEN Polygon_to_sexp(self)
    ELSE IF class = "Line" THEN Line_to_sexp(self)
    ELSE IF class = "Pad" THEN Pad_to_sexp(self)
    ELSE IF class = "TextEffects" THEN TextEffects_to_sexp(self)
    ELSE FootprintModel_to_sexp(self)

\* a node was decoded, the entity encoded, and the node of it decoded again
Reencoded(class) ==
    /\ Len(trace) = 3
    /\ trace[1].call = class \o ".from_sexp"
    /\ trace[2].call = class \o ".to_sexp"
    /\ trace[3].call = class \o ".from_sexp"

\* re-encoding is stable for the given classes
Stable(classes) ==
    \A class \in classes :
        Reencoded(class) =>
            /\ trace[3].ret = trace[1].ret
            /\ EncodeBy(class, trace[3].ret.val) = trace[2].ret.val

\* re-encoding is stable for the classes whose encoder tests no field for truth
C30_StableClasses == Stable({"Stroke", "Points"})

\* C30: re-encoding is a stable normal form: for every node n that the
\* decoder of a Property, Stroke, Points, Polygon, Line, Pad, TextEffects or
\* FootprintModel accepts, the node encode(decode(n)) is accepted by the same
\* decoder, decodes to the entity decode(n), and encodes again to the same node.
C30_NormalForm == Stable(NodeClasses)

====
